---- MODULE Spec2Model ----
(***************************************************************************)
(* A model of the multipart / resumable upload engine of @dreamer/upload:  *)
(*   src/src/multipart.ts   MultipartUploader (part plan, bounded          *)
(*                          concurrency dispatch loop, per-part retry)     *)
(*   src/src/resumable.ts   ResumableUploader + MemoryStateStore           *)
(*   src/src/adapters/s3.ts the provider calls the engine makes            *)
(*                                                                         *)
(* Sizes are counted in MiB, time in ms.  Every JavaScript                 *)
(* continuation (the code between two awaits on an outside promise: an     *)
(* adapter call, a timer, a digest) is one atomic action; an await on a    *)
(* promise MemoryStateStore has already resolved continues in the same     *)
(* turn and does not end the action.                                       *)
(***************************************************************************)
EXTENDS Integers, Sequences, FiniteSets, TLC

----------------------------------------------------------------------------
(* Program constants (src/src/multipart.ts:155-173), sizes in MiB.         *)

MIN_PART_SIZE == 5

MAX_PART_SIZE == 5 * 1024

MAX_PARTS == 10000

DEFAULT_PART_SIZE == 5

DEFAULT_CONCURRENCY == 3

DEFAULT_RETRIES == 3

\* multipart.ts:173, in ms
DEFAULT_RETRY_DELAY == 1000

\* resumable.ts:431, in ms
DEFAULT_AUTO_SAVE_INTERVAL == 1000

\* resumable.ts:448, the head / tail sample of calculateFileHash
SAMPLE_SIZE == 1

----------------------------------------------------------------------------
(* Bounds of the model.                                                    *)

\* file sizes tried by the part-plan specification: 0..MaxPlanFileSize
MaxPlanFileSize == 23

\* part sizes tried by the part-plan specification:
\* MIN_PART_SIZE..MIN_PART_SIZE+MaxPlanExtra
MaxPlanExtra == 3

----------------------------------------------------------------------------
(* Small helpers.                                                          *)

Min(a, b) == IF a < b THEN a ELSE b

Range(s) == {s[i] : i \in DOMAIN s}

RECURSIVE SumSizes(_)
SumSizes(ps) ==
  IF ps = <<>> THEN 0 ELSE ps[1].size + SumSizes(Tail(ps))

RECURSIVE SelectIdx(_, _, _)
\* the indices i >= from of parts whose status is in keep, in order
\* (Array.prototype.filter keeps the array order)
SelectIdx(ps, from, keep) ==
  IF from > Len(ps) THEN <<>>
  ELSE IF ps[from].status \in keep
       THEN <<from>> \o SelectIdx(ps, from + 1, keep)
       ELSE SelectIdx(ps, from + 1, keep)

RECURSIVE Without(_, _)
\* uploadQueue.splice(uploadQueue.indexOf(t), 1)
Without(q, t) ==
  IF q = <<>> THEN <<>>
  ELSE IF Head(q) = t THEN Tail(q)
  ELSE <<Head(q)>> \o Without(Tail(q), t)

----------------------------------------------------------------------------
(* UploadPart and calculateParts (multipart.ts:39-54, 233-263).            *)

NoEtag == -1      \* part.etag undefined

EmptyEtag == 0    \* the adapter returned etag "" (s3.ts:798)

NewPart(n, s, e) ==
  [partNumber |-> n, start |-> s, end |-> e, size |-> e - s,
   status |-> "pending", etag |-> NoEtag, error |-> ""]

RECURSIVE PartsFromUnclamped(_, _, _, _)
\* a variant of the loop that does not clamp the end of the last part
PartsFromUnclamped(partNumber, offset, fileSize, partSize) ==
  IF offset < fileSize
  THEN <<NewPart(partNumber, offset, offset + partSize)>>
         \o PartsFromUnclamped(partNumber + 1, offset + partSize, fileSize,
                               partSize)
  ELSE <<>>

RECURSIVE PartsFrom(_, _, _, _)
\* the while loop of calculateParts, from (partNumber, offset)
PartsFrom(partNumber, offset, fileSize, partSize) ==
  IF offset < fileSize
  THEN LET end == Min(offset + partSize, fileSize)
       IN  <<NewPart(partNumber, offset, end)>>
             \o PartsFrom(partNumber + 1, end, fileSize, partSize)
  ELSE <<>>

\* parts.length after the while loop of calculateParts: one part for each
\* partSize of the file, the last one possibly short (multipart.ts:238-253)
PartCount(fileSize, partSize) ==
  IF fileSize <= 0 THEN 0 ELSE (fileSize + partSize - 1) \div partSize

\* calculateParts: the plan, or a thrown configuration error
\* (multipart.ts:233-263)
calculateParts(fileSize, partSize) ==
  IF PartCount(fileSize, partSize) > MAX_PARTS
  THEN [ok |-> FALSE, parts |-> <<>>]
  ELSE [ok |-> TRUE, parts |-> PartsFrom(1, 0, fileSize, partSize)]

----------------------------------------------------------------------------
(* MultipartUploader constructor (multipart.ts:207-224).  A raw            *)
(* configuration value 0 stands for a falsy value (undefined or 0), which  *)
(* `||` replaces by the default.                                           *)

Constructor(c) ==
  LET partSize == IF c.partSize = 0 THEN DEFAULT_PART_SIZE ELSE c.partSize
  IN  IF partSize < MIN_PART_SIZE \/ partSize > MAX_PART_SIZE
      THEN [ok |-> FALSE, partSize |-> partSize, concurrency |-> 0,
            retries |-> 0, retryDelay |-> 0]
      ELSE [ok |-> TRUE, partSize |-> partSize,
            concurrency |-> IF c.concurrency = 0 THEN DEFAULT_CONCURRENCY
                            ELSE c.concurrency,
            retries |-> IF c.retries = 0 THEN DEFAULT_RETRIES
                        ELSE c.retries,
            retryDelay |-> IF c.retryDelay = 0 THEN DEFAULT_RETRY_DELAY
                           ELSE c.retryDelay]

----------------------------------------------------------------------------
(* Values.                                                                 *)

\* an Error, by its message; count is the number an aggregate message names
Err(msg, n) == [msg |-> msg, count |-> n]

NoErr == Err("", 0)

\* the ETag the provider returns for part pn of session u
Etag(u, pn) == 100 * u + pn

NoResult == [success |-> FALSE, error |-> NoErr, partCount |-> 0, size |-> 0]

\* Math.round of NaN (0 / 0) and of Infinity (x / 0)
NaN == -1

\* Math.round((completedSize / file.length) * 100) (multipart.ts:403):
\* the nearest integer, a half rounded up
Percentage(completedSize, length) ==
  IF length = 0 THEN NaN
  ELSE (200 * completedSize + length) \div (2 * length)

\* no progress event
NoProgress ==
  [loaded |-> 0, total |-> 0, percentage |-> 0, completedParts |-> 0,
   totalParts |-> 0]

\* a run of MultipartUploader.upload that has not been called
IdleRun ==
  [pc |-> "idle", cfg |-> Constructor([partSize |-> 0, concurrency |-> 0,
                                       retries |-> 0, retryDelay |-> 0]),
   \* the key given to upload
   key |-> "",
   file |-> 0, st |-> 0, pend |-> <<>>, next |-> 1, queue |-> <<>>,
   snap |-> {}, wake |-> "none", wakeErr |-> NoErr, completedSize |-> 0,
   result |-> NoResult,
   \* the closure of ResumableUploader.executeUpload that called upload
   \* (rec = 0: upload was called directly)
   \* sinceSave: Date.now() - lastSaveTime of the closure
   rec |-> 0, aborted |-> FALSE, sinceSave |-> 0,
   \* autoSave of the closure: it is suspended at await stateStore.save
   \* (lastSaveTime is not assigned yet), and the writes it made in the
   \* latest step of the program
   saving |-> FALSE, writes |-> 0,
   \* the resumeState the run was given (0: none) and the parts it found
   \* in it, by index: whether completed, and the etag
   resume |-> 0, found |-> <<>>,
   \* the status of the record in the last call of the onStateChange the
   \* caller gave to ResumableUploader ("": not called)
   callerSaw |-> "",
   \* the onStateChange given to upload has thrown in this run (the
   \* callback of the closure: "upload cancelled")
   threw |-> FALSE,
   \* the onProgress of the caller: the events it has received and the last
   events |-> 0, progress |-> NoProgress,
   \* the onStateChange of a caller of upload: the calls left until the one
   \* in which it throws (0: it never throws)
   cbLeft |-> 0]

\* the arguments of no storage.uploadPart call
NoArgs == [key |-> "", uploadId |-> 0, partNumber |-> 0, start |-> 0,
           end |-> 0]

\* an uploadTask that has not been created: where it is, the attempt of
\* uploadPartWithRetry, the arguments it was created with (the key, the
\* uploadId read from the state and the range of the slice), the
\* arguments of its first and of its latest storage.uploadPart call, and
\* the delays it has slept
NoTask ==
  [st |-> "none", attempt |-> 0, args |-> NoArgs, first |-> NoArgs,
   last |-> NoArgs, waits |-> <<>>]

NoState == [uploadId |-> 0, fileSize |-> 0, partSize |-> 0, parts |-> <<>>]

\* no ResumableUploadState object at a reference
NoObj ==
  [id |-> 0, key |-> "", fileHash |-> <<>>, fileSize |-> 0, status |-> "",
   ms |-> 0, error |-> NoErr]

\* a call of upload / resume that has not been made
NoCall ==
  [pc |-> "idle", op |-> "", file |-> [size |-> 0, head |-> 0, mid |-> 0,
                                      tail |-> 0],
   key |-> "", id |-> 0, ref |-> 0, result |-> NoResult]

----------------------------------------------------------------------------
(* Bounds of the engine specification.                                     *)

\* the largest number of parts of a file the engine uploads
MaxParts == 3

\* the largest configured concurrency and retries (0 = not configured)
MaxConfig == 2

PartIdx == 1 .. MaxParts

\* engine runs (calls of MultipartUploader.upload)
Runs == {1, 2}

\* MultipartUploadState objects / provider sessions (the uploadId)
StateIds == {1, 2}

\* the files the engine uploads, by length: 0, 1, 2 .. MaxParts parts of the
\* default part size with a short last part, and one with a full last part
EngineFileSizes ==
  {0} \cup {(n - 1) * DEFAULT_PART_SIZE + 1 : n \in PartIdx}
      \cup {2 * DEFAULT_PART_SIZE}

\* a file of more than MAX_PARTS parts for every part size of the engine
\* specification
TooLargeFile == MAX_PARTS * (MIN_PART_SIZE + 1) + 1

----------------------------------------------------------------------------
(* Bounds of the resumable specification.                                  *)


\* the calls of pause / cancel in a behaviour
MaxControls == 1

\* ResumableUploadState objects: the store's, each closure's, each call's
ObjIds == 1 .. 6

\* record ids (crypto.randomUUID of each upload call): call c draws id c
RecIds == Runs

\* the files given to upload / resume: content by head, middle and tail
FileA == [size |-> DEFAULT_PART_SIZE + 1, head |-> 1, mid |-> 1, tail |-> 1]

FileB == [size |-> DEFAULT_PART_SIZE + 1, head |-> 2, mid |-> 1, tail |-> 1]

FileC == [size |-> DEFAULT_PART_SIZE + 2, head |-> 1, mid |-> 1, tail |-> 1]

Files == {FileA, FileB, FileC}

\* the files given to upload
UploadFiles == {FileA}

NoFile == [size |-> 0, head |-> 0, mid |-> 0, tail |-> 0]

----------------------------------------------------------------------------
VARIABLES
  planIn,     \* part-plan specification: the arguments of calculateParts
  planOut,    \* part-plan specification: <<>> or <<result>> once computed
  config,     \* the MultipartUploadConfig given by the caller
  mp,         \* the MultipartUploadState objects, by uploadId
  run,        \* the calls of MultipartUploader.upload
  task,       \* task[r][p]: the uploadTask of run r for part index p
  adapter,    \* what the storage adapter was asked to do
  obj,        \* the ResumableUploadState objects, by reference
  store,      \* MemoryStateStore.states: <<id, reference>> in Map order
  active,     \* ResumableUploader.activeUploads: id -> run whose abort it holds
  call,       \* the calls of ResumableUploader.upload / resume
  controls,   \* the calls of pause / cancel made, in order
  client,     \* the UploadClient: config, localStorage, calls, server
  abortCall,  \* the calls of MultipartUploader.abort
  server,     \* the MultipartUploadHandler and what its adapter was asked
  signer,     \* the request signer, the callers' header maps, the calls
  stateStore, \* a MemoryStateStore with the updatedAt stamps, and the clock
  scanner     \* a CachedScanner: its config, its cache, the clock, the scans

planVars == <<planIn, planOut>>

\* the variables of the operations that stand beside an upload
sideVars == <<abortCall, server, signer, stateStore, scanner>>

engineVars == <<config, mp, run, task, adapter>>

resumableVars == <<obj, store, active, call, controls>>

vars == <<planIn, planOut, config, mp, run, task, adapter,
          obj, store, active, call, controls, client, sideVars>>

PlanIdle == planIn = [fileSize |-> 0, partSize |-> 0] /\ planOut = <<>>

NoAdapter ==
  [exposesEtag |-> TRUE, initiates |-> 0, sessions |-> 0,
   partCalls |-> [u \in StateIds |-> [p \in PartIdx |-> 0]],
   completes |-> <<>>, aborts |-> <<>>]

----------------------------------------------------------------------------
(* The program state as one value, so that the statements of a             *)
(* continuation compose in the order the code runs them.                   *)

\* the state a step of the program starts from; the count of the
\* auto-save writes of the step before is forgotten
World ==
  [mp |-> mp, run |-> [r \in Runs |-> [run[r] EXCEPT !.writes = 0]],
   task |-> task, adapter |-> adapter,
   obj |-> obj, store |-> store, active |-> active, call |-> call]

\* the places that hold a reference to a ResumableUploadState object: the
\* entries of the store in Map order, the closures of executeUpload and
\* the calls of resume
Holders(W) ==
  [i \in DOMAIN W.store |-> W.store[i][2]]
    \o [r \in 1 .. Cardinality(Runs) |-> W.run[r].rec]
    \o [c \in 1 .. Cardinality(Runs) |-> W.call[c].ref]

\* the references the program holds
Live(W) == Range(Holders(W)) \ {0}

RECURSIVE FirstHeld(_, _, _)
\* the objects a reference reaches, in the order of their first holder
FirstHeld(H, i, olds) ==
  IF i > Len(H) THEN olds
  ELSE FirstHeld(H, i + 1,
                 IF H[i] = 0 \/ H[i] \in Range(olds) THEN olds
                 ELSE Append(olds, H[i]))

\* References are opaque: objects no reference reaches are forgotten, and
\* the others are numbered in the order of their first holder.
Renamed(W, olds) ==
  [W EXCEPT
     !.obj = [n \in ObjIds |-> IF n <= Len(olds) THEN W.obj[olds[n]] ELSE NoObj],
     !.store = [i \in DOMAIN W.store |->
                  <<W.store[i][1],
                    CHOOSE n \in DOMAIN olds : olds[n] = W.store[i][2]>>],
     !.run = [r \in Runs |->
                [W.run[r] EXCEPT !.rec =
                   IF @ = 0 THEN 0 ELSE CHOOSE n \in DOMAIN olds : olds[n] = @]],
     !.call = [c \in Runs |->
                 [W.call[c] EXCEPT !.ref =
                    IF @ = 0 THEN 0 ELSE CHOOSE n \in DOMAIN olds : olds[n] = @]]]

Collect(W) == Renamed(W, FirstHeld(Holders(W), 1, <<>>))

Written(C) ==
  /\ mp' = C.mp
  /\ run' = C.run
  /\ task' = C.task
  /\ adapter' = C.adapter
  /\ obj' = C.obj
  /\ store' = C.store
  /\ active' = C.active
  /\ call' = C.call

\* the microtasks queued by the code that ran: an autoSave suspended at
\* await this.stateStore.save continues with lastSaveTime = now
\* (resumable.ts:593-594)
Microtasks(W) ==
  [W EXCEPT !.run = [r \in Runs |->
                       IF W.run[r].saving
                       THEN [W.run[r] EXCEPT !.saving = FALSE,
                                             !.sinceSave = 0]
                       ELSE W.run[r]]]

Commit(W) == Written(Collect(Microtasks(W)))

SetRun(W, r, f) == [W EXCEPT !.run[r] = f]

PartsOf(W, r) == W.mp[W.run[r].st].parts

SetPart(W, r, p, part) ==
  [W EXCEPT !.mp[W.run[r].st].parts[p] = part]

----------------------------------------------------------------------------
(* MemoryStateStore (resumable.ts:208-256).                                *)

\* this.states.get(id) || null, as a reference (0: null)
StoreGet(st, id) ==
  LET hits == {i \in DOMAIN st : st[i][1] = id}
  IN  IF hits = {} THEN 0 ELSE st[CHOOSE i \in hits : TRUE][2]

\* Map.set: a present key keeps its place, a new key goes last
StoreSet(st, id, ref) ==
  IF StoreGet(st, id) # 0
  THEN [i \in DOMAIN st |-> IF st[i][1] = id THEN <<id, ref>> ELSE st[i]]
  ELSE Append(st, <<id, ref>>)

\* delete(id)
StoreDelete(st, id) == SelectSeq(st, LAMBDA e : e[1] # id)

\* a new object reference
NewRef(W) ==
  CHOOSE o \in ObjIds \ Live(W) : \A q \in ObjIds \ Live(W) : o <= q

\* save(id, state): the store keeps a shallow copy {...state} of the
\* object at ref; the copy shares the multipartState object
Save(W, id, ref) ==
  LET o == NewRef(W)
  IN  [W EXCEPT !.obj[o] = W.obj[ref], !.store = StoreSet(@, id, o)]

\* listPending(): the stored objects that are pending, paused or uploading
ListPending(W) ==
  SelectSeq(W.store,
            LAMBDA e : W.obj[e[2]].status \in {"pending", "paused", "uploading"})

----------------------------------------------------------------------------
(* ResumableUploader (resumable.ts:413-762).                               *)

\* this.config.autoSaveInterval (resumable.ts:431)
AutoSaveInterval ==
  IF config.autoSaveInterval = 0 THEN DEFAULT_AUTO_SAVE_INTERVAL
  ELSE config.autoSaveInterval

\* calculateFileHash: SHA-256 of the whole content of a file of at most
\* two samples, else of its head, its tail and its length
\* (resumable.ts:446-467)
calculateFileHash(f) ==
  IF f.size <= 2 * SAMPLE_SIZE
  THEN <<f.head, f.mid, f.tail, f.size>>
  ELSE <<f.head, 0, f.tail, f.size>>

\* findExistingUpload: the id of the first pending record of the same key,
\* hash and size, 0 if none (resumable.ts:749-761)
FindExistingUpload(W, key, fileHash, fileSize) ==
  LET pending == ListPending(W)
      hits == {i \in DOMAIN pending :
                 /\ W.obj[pending[i][2]].key = key
                 /\ W.obj[pending[i][2]].fileHash = fileHash
                 /\ W.obj[pending[i][2]].fileSize = fileSize}
  IN  IF hits = {} THEN 0
      ELSE pending[CHOOSE i \in hits : \A j \in hits : i <= j][1]

\* the async onStateChange that executeUpload passes to the engine, up to
\* its first await; thrown inside an async function, "upload cancelled"
\* rejects a promise the engine drops (resumable.ts:588-596, 604-609)
ControllerCallback(W, r) ==
  LET R == W.run[r]
  IN  IF R.aborted THEN [W EXCEPT !.run[r].threw = TRUE]
      ELSE LET W1 == [W EXCEPT !.obj[R.rec].ms = R.st,
                               !.run[r].callerSaw = W.obj[R.rec].status]
           IN  IF R.sinceSave >= AutoSaveInterval
               THEN \* save is called; lastSaveTime = now follows the
                    \* await, after the code that called the callback
                    [Save(W1, W1.obj[R.rec].id, R.rec)
                       EXCEPT !.run[r].saving = TRUE,
                              !.run[r].writes = @ + 1]
               ELSE W1

\* a variant of the end of executeUpload that keeps the record of a
\* successful upload
AfterUploadKeepsRecord(W, r) ==
  LET R == W.run[r]
      id == W.obj[R.rec].id
      W1 == [W EXCEPT !.obj[R.rec].status =
                         IF R.result.success THEN "completed" ELSE "failed",
                      !.obj[R.rec].error = R.result.error]
  IN  [Save(W1, id, R.rec) EXCEPT !.active[id] = 0, !.run[r].sinceSave = 0]

\* executeUpload after uploader.upload resolved, with its finally
\* (resumable.ts:613-632, 651-653)
AfterUpload(W, r) ==
  LET R == W.run[r]
      id == W.obj[R.rec].id
      W1 == [W EXCEPT !.obj[R.rec].status =
                         IF R.result.success THEN "completed" ELSE "failed",
                      !.obj[R.rec].error = R.result.error]
      W2 == Save(W1, id, R.rec)
      W3 == IF R.result.success
            THEN [W2 EXCEPT !.store = StoreDelete(@, id)] ELSE W2
  IN  [W3 EXCEPT !.active[id] = 0, !.run[r].sinceSave = 0]

----------------------------------------------------------------------------
(* MultipartUploader.upload (multipart.ts:342-491).                        *)

\* the next onStateChange?.(state) throws: the callback a caller gave to
\* upload, at the call it throws in; the callback of executeUpload is async
\* and returns a rejected promise instead (resumable.ts:603-608)
Throws(W, r) == W.run[r].rec = 0 /\ W.run[r].cbLeft = 1

\* the Error of the caller's callback
CallbackErr == Err("callbackThrew", 0)

\* onStateChange?.(state): the callback given to upload
OnStateChange(W, r) ==
  IF W.run[r].rec # 0 THEN ControllerCallback(W, r)
  ELSE IF W.run[r].cbLeft > 0
  THEN [W EXCEPT !.run[r].cbLeft = @ - 1,
                 !.run[r].threw = @ \/ Throws(W, r)]
  ELSE W

\* onProgress via updateProgress (multipart.ts:392-409)
UpdateProgress(W, r) ==
  LET R == W.run[r]
      ps == PartsOf(W, r)
  IN  [W EXCEPT
         !.run[r].events = @ + 1,
         !.run[r].progress =
            [loaded |-> R.completedSize,
             total |-> R.file,
             percentage |-> Percentage(R.completedSize, R.file),
             completedParts |-> Len(SelectIdx(ps, 1, {"completed"})),
             totalParts |-> Len(ps)]]

\* storage.uploadPart(key, uploadId, partNumber, data) is called
\* (multipart.ts:315-325, entered from uploadPartWithRetry:287)
\* a variant of the call that numbers the part by the attempt
CallUploadPartRenumbers(W, r, p, attempt) ==
  LET t == W.task[r][p]
      sent == [t.args EXCEPT
                 !.partNumber = PartsOf(W, r)[p].partNumber + attempt]
  IN  [W EXCEPT !.adapter.partCalls[sent.uploadId][p] = @ + 1,
                !.task[r][p] = [t EXCEPT
                                  !.st = "call", !.attempt = attempt,
                                  !.first = IF attempt = 0 THEN sent ELSE @,
                                  !.last = sent]]

CallUploadPart(W, r, p, attempt) ==
  LET t == W.task[r][p]
      \* key, uploadId and data are the arguments of uploadPartWithRetry;
      \* part.partNumber is read from the part at the call (322)
      sent == [t.args EXCEPT !.partNumber = PartsOf(W, r)[p].partNumber]
  IN  [W EXCEPT !.adapter.partCalls[sent.uploadId][p] = @ + 1,
                !.task[r][p] = [t EXCEPT
                                  !.st = "call", !.attempt = attempt,
                                  !.first = IF attempt = 0 THEN sent ELSE @,
                                  !.last = sent]]

\* the uploadTask of one part up to its first await (multipart.ts:422-433)
\* and uploadQueue.push (448)
StartTask(W, r, p) ==
  LET part == PartsOf(W, r)[p]
      \* file.slice(part.start, part.end) (420)
      data == [start |-> part.start, end |-> part.end]
      W1 == SetPart(W, r, p, [part EXCEPT !.status = "uploading"])
      W2 == OnStateChange(W1, r)
      \* the arguments of uploadPartWithRetry are evaluated (430-436)
      args == [key |-> W2.run[r].key,
               uploadId |-> W2.mp[W2.run[r].st].uploadId,
               partNumber |-> 0, start |-> data.start, end |-> data.end]
      W3 == IF Throws(W1, r)
            THEN \* the task is a rejected promise (424 is outside its try)
                 [W2 EXCEPT !.task[r][p].st = "rej"]
            ELSE CallUploadPart([W2 EXCEPT !.task[r][p].args = args],
                                r, p, 0)
  IN  [W3 EXCEPT !.run[r].queue = Append(@, p)]

\* the tasks in uploadQueue that were rejected when they were pushed: the
\* promise awaited next rejects, and their finally callbacks splice them
Thrown(W, r) == {p \in Range(W.run[r].queue) : W.task[r][p].st = "rej"}

RECURSIVE WithoutAll(_, _)
\* uploadQueue after the splices of the tasks in ts
WithoutAll(q, ts) ==
  IF ts = {} THEN q
  ELSE LET t == CHOOSE x \in ts : TRUE
       IN  WithoutAll(Without(q, t), ts \ {t})

\* await Promise.race(uploadQueue) (multipart.ts:414-416)
AwaitRace(W, r) ==
  [W EXCEPT !.run[r].pc = "race",
            !.run[r].snap = Range(W.run[r].queue),
            !.run[r].queue = WithoutAll(@, Thrown(W, r)),
            !.run[r].wake = IF Thrown(W, r) # {} THEN "rej" ELSE "none",
            !.run[r].wakeErr = IF Thrown(W, r) # {} THEN CallbackErr ELSE @]

\* await Promise.all(uploadQueue) (multipart.ts:460)
AwaitAll(W, r) ==
  [W EXCEPT !.run[r].pc = "all",
            !.run[r].snap = Range(W.run[r].queue),
            !.run[r].queue = WithoutAll(@, Thrown(W, r)),
            !.run[r].wake = IF Thrown(W, r) # {} THEN "rej"
                            ELSE IF W.run[r].queue = <<>> THEN "ok"
                            ELSE "none",
            !.run[r].wakeErr = IF Thrown(W, r) # {} THEN CallbackErr ELSE @]

RECURSIVE DispatchLoopOverfull(_, _)
\* a variant of the loop that waits only when the queue is over the limit
DispatchLoopOverfull(W, r) ==
  LET R == W.run[r]
  IN  IF R.next > Len(R.pend) THEN AwaitAll(W, r)
      ELSE IF Len(R.queue) > R.cfg.concurrency THEN AwaitRace(W, r)
      ELSE DispatchLoopOverfull(
             [StartTask(W, r, R.pend[R.next]) EXCEPT !.run[r].next = @ + 1], r)

RECURSIVE DispatchLoop(_, _)
\* the for loop over pendingParts, from run[r].next, up to the next await
\* (multipart.ts:412-460)
DispatchLoop(W, r) ==
  LET R == W.run[r]
  IN  IF R.next > Len(R.pend) THEN AwaitAll(W, r)
      ELSE IF Len(R.queue) >= R.cfg.concurrency THEN AwaitRace(W, r)
      ELSE DispatchLoop(
             [StartTask(W, r, R.pend[R.next]) EXCEPT !.run[r].next = @ + 1], r)

\* the uploadTasks of run r that have not settled, but for p
Unsettled(W, r, p) ==
  {q \in PartIdx \ {p} : W.task[r][q].st \in {"call", "sleep"}}

\* upload returns (multipart.ts:473-489); its locals are gone, but for
\* completedSize while an uploadTask that has not settled holds it
Return(W, r, success, error) ==
  LET W1 == [W EXCEPT
               !.run[r].pc = "done",
               !.run[r].pend = <<>>,
               !.run[r].next = 1,
               !.run[r].queue = <<>>,
               !.run[r].snap = {},
               !.run[r].wake = "none",
               !.run[r].wakeErr = NoErr,
               !.run[r].completedSize =
                  IF Unsettled(W, r, 0) = {} THEN 0 ELSE @,
               !.run[r].result =
                  [success |-> success, error |-> error,
                   partCount |-> IF success THEN Len(PartsOf(W, r)) ELSE 0,
                   size |-> W.run[r].file]]
  IN  IF W.run[r].rec = 0 THEN W1 ELSE AfterUpload(W1, r)

\* a variant that starts completedSize from every part that was dispatched
\* before, completed or not
AfterStateCountsDispatched(W, r) ==
  LET W1 == OnStateChange(W, r)
      ps == PartsOf(W1, r)
      done == SelectIdx(ps, 1, {"completed", "failed", "uploading"})
      W2 == [W1 EXCEPT
               !.run[r].pend = SelectIdx(ps, 1, {"pending", "failed"}),
               !.run[r].next = 1,
               !.run[r].queue = <<>>,
               !.run[r].completedSize =
                  SumSizes([i \in DOMAIN done |-> ps[done[i]]])]
  IN  IF Throws(W, r) THEN Return(W1, r, FALSE, CallbackErr)
      ELSE DispatchLoop(W2, r)

\* a variant of the step that also takes the completed parts as pending
AfterStateUploadsCompleted(W, r) ==
  LET W1 == OnStateChange(W, r)
      ps == PartsOf(W1, r)
      done == SelectIdx(ps, 1, {"completed"})
      W2 == [W1 EXCEPT
               !.run[r].pend =
                  SelectIdx(ps, 1, {"pending", "failed", "completed"}),
               !.run[r].next = 1,
               !.run[r].queue = <<>>,
               !.run[r].completedSize =
                  SumSizes([i \in DOMAIN done |-> ps[done[i]]])]
  IN  IF Throws(W, r) THEN Return(W1, r, FALSE, CallbackErr)
      ELSE DispatchLoop(W2, r)

\* the state is known: first notification, pendingParts, completedSize and
\* the dispatch loop (multipart.ts:377-460)
AfterState(W, r) ==
  LET W1 == OnStateChange(W, r)
      ps == PartsOf(W1, r)
      done == SelectIdx(ps, 1, {"completed"})
      W2 == [W1 EXCEPT
               !.run[r].pend = SelectIdx(ps, 1, {"pending", "failed"}),
               !.run[r].next = 1,
               !.run[r].queue = <<>>,
               !.run[r].completedSize =
                  SumSizes([i \in DOMAIN done |-> ps[done[i]]])]
  IN  IF Throws(W, r) THEN Return(W1, r, FALSE, CallbackErr)
      ELSE DispatchLoop(W2, r)

\* the parts of a resumeState as upload finds them
Found(parts) ==
  [p \in DOMAIN parts |->
     [completed |-> parts[p].status = "completed", etag |-> parts[p].etag]]

\* a variant of upload that opens the session before it plans the parts
CallUploadInitiatesFirst(W, r, cfg, file, resume, rec, cb) ==
  LET W0 == [W EXCEPT !.run[r] = [IdleRun EXCEPT
                                    !.cfg = cfg, !.file = file, !.rec = rec,
                                    !.key = IF rec = 0 THEN "k"
                                            ELSE W.obj[rec].key,
                                    !.sinceSave = 0, !.cbLeft = cb],
                      !.task[r] = [p \in PartIdx |-> NoTask]]
      plan == calculateParts(file, cfg.partSize)
  IN  IF resume # 0
      THEN AfterState([W0 EXCEPT !.run[r].st = resume,
                                 !.run[r].resume = resume,
                                 !.run[r].found = Found(W.mp[resume].parts)],
                      r)
      ELSE IF ~plan.ok
      THEN Return([W0 EXCEPT !.adapter.initiates = @ + 1], r, FALSE,
                  Err("tooManyParts", 0))
      ELSE [W0 EXCEPT !.run[r].pc = "init",
                      !.adapter.initiates = @ + 1]

\* upload(params) is called with a file (by its length), for a resume the
\* uploadId of the state to resume (0: none), and the callback of the
\* executeUpload closure over the record at rec (0: none), or a callback of
\* the caller that throws in its call number cb (0: in none)
\* (multipart.ts:342-375)
CallUpload(W, r, cfg, file, resume, rec, cb) ==
  LET W0 == [W EXCEPT !.run[r] = [IdleRun EXCEPT
                                    !.cfg = cfg, !.file = file, !.rec = rec,
                                    !.key = IF rec = 0 THEN "k"
                                            ELSE W.obj[rec].key,
                                    !.sinceSave = 0, !.cbLeft = cb],
                      !.task[r] = [p \in PartIdx |-> NoTask]]
      plan == calculateParts(file, cfg.partSize)
  IN  IF resume # 0
      THEN AfterState([W0 EXCEPT !.run[r].st = resume,
                                 !.run[r].resume = resume,
                                 !.run[r].found = Found(W.mp[resume].parts)],
                      r)
      ELSE IF ~plan.ok
      THEN Return(W0, r, FALSE, Err("tooManyParts", 0))
      ELSE [W0 EXCEPT !.run[r].pc = "init",
                      !.adapter.initiates = @ + 1]

\* storage.initiateMultipartUpload resolved with a new uploadId
\* (multipart.ts:365-375)
InitiateOk(W, r) ==
  LET u == W.adapter.sessions + 1
      R == W.run[r]
      W1 == [W EXCEPT
               !.adapter.sessions = u,
               !.mp[u] = [uploadId |-> u, fileSize |-> R.file,
                          partSize |-> R.cfg.partSize,
                          parts |-> calculateParts(R.file, R.cfg.partSize).parts],
               !.run[r].st = u]
  IN  AfterState(W1, r)

\* a settled uploadTask: the finally callback splices it from uploadQueue
\* (multipart.ts:451-456), and the pending Promise.race / Promise.all of
\* the run that lists it takes its outcome
Settle(W, r, p, outcome, error) ==
  LET R == W.run[r]
      T == [W.task[r] EXCEPT ![p].st = outcome, ![p].attempt = 0]
      hit == R.pc \in {"race", "all"} /\ p \in R.snap /\ R.wake = "none"
      wake == IF ~hit THEN R.wake
              ELSE IF outcome = "rej" THEN "rej"
              ELSE IF R.pc = "race" THEN "ok"
              ELSE IF \A q \in R.snap : T[q].st = "ok" THEN "ok"
              ELSE "none"
  IN  [W EXCEPT !.task[r] = T,
                !.run[r].queue = Without(@, p),
                !.run[r].completedSize =
                   IF R.pc = "done" /\ Unsettled(W, r, p) = {} THEN 0 ELSE @,
                !.run[r].wake = wake,
                !.run[r].wakeErr = IF hit /\ wake = "rej" THEN error ELSE @]

\* storage.uploadPart resolved with etag (multipart.ts:435-439)
PartResolved(W, r, p, etag) ==
  LET part == PartsOf(W, r)[p]
      W1 == SetPart(W, r, p, [part EXCEPT !.etag = etag,
                                          !.status = "completed"])
      W2 == [W1 EXCEPT !.run[r].completedSize = @ + part.size]
      W3 == UpdateProgress(W2, r)
      W4 == OnStateChange(W3, r)
      \* the catch of the task, entered from the callback at 439 (440-444)
      W5 == SetPart(W4, r, p, [PartsOf(W4, r)[p] EXCEPT
                                 !.status = "failed",
                                 !.error = "callbackThrew"])
      W6 == OnStateChange(W5, r)
  IN  IF Throws(W3, r) THEN Settle(W6, r, p, "rej", CallbackErr)
      ELSE Settle(W4, r, p, "ok", NoErr)

\* storage.uploadPart rejected on the attempt the task is at: sleep before
\* the next attempt, or give up (multipart.ts:284-300, 440-445)
\* a variant of the catch whose delay grows by retryDelay each attempt
PartRejectedLinear(W, r, p) ==
  LET attempt == W.task[r][p].attempt
      part == PartsOf(W, r)[p]
  IN  IF attempt < W.run[r].cfg.retries
      THEN [W EXCEPT !.task[r][p].st = "sleep",
                     !.task[r][p].waits =
                        Append(@, W.run[r].cfg.retryDelay * (attempt + 1))]
      ELSE LET W1 == SetPart(W, r, p,
                       [part EXCEPT !.status = "failed",
                                    !.error = "uploadPartFailed"])
               W2 == OnStateChange(W1, r)
           IN  Settle(W2, r, p, "rej",
                      IF Throws(W1, r) THEN CallbackErr
                      ELSE Err("uploadPartFailed", 0))

PartRejected(W, r, p) ==
  LET attempt == W.task[r][p].attempt
      part == PartsOf(W, r)[p]
  IN  IF attempt < W.run[r].cfg.retries
      THEN \* delay = retryDelay * Math.pow(2, attempt); sleep(delay)
           [W EXCEPT !.task[r][p].st = "sleep",
                     !.task[r][p].waits =
                        Append(@, W.run[r].cfg.retryDelay * 2 ^ attempt)]
      ELSE LET W1 == SetPart(W, r, p,
                       [part EXCEPT !.status = "failed",
                                    !.error = "uploadPartFailed"])
               W2 == OnStateChange(W1, r)
           IN  Settle(W2, r, p, "rej",
                      IF Throws(W1, r) THEN CallbackErr
                      ELSE Err("uploadPartFailed", 0))

\* MultipartUploader.completeMultipartUpload: the list sent to the adapter
\* (multipart.ts:502-517)
CompletedParts(ps) ==
  LET keep == SelectIdx([i \in DOMAIN ps |->
                 [status |-> IF ps[i].status = "completed" /\ ps[i].etag > 0
                             THEN "keep" ELSE "drop"]], 1, {"keep"})
  IN  [i \in DOMAIN keep |->
         [partNumber |-> ps[keep[i]].partNumber, etag |-> ps[keep[i]].etag]]

\* the continuation of upload after Promise.all resolved
\* (multipart.ts:462-469)
AfterAll(W, r) ==
  LET ps == PartsOf(W, r)
      failedParts == SelectIdx(ps, 1, {"pending", "uploading", "failed"})
  IN  IF Len(failedParts) > 0
      THEN Return(W, r, FALSE, Err("partsFailed", Len(failedParts)))
      ELSE [W EXCEPT !.run[r].pc = "complete",
                     !.adapter.completes =
                        Append(@, [uploadId |-> W.mp[W.run[r].st].uploadId,
                                   parts |-> CompletedParts(ps)])]

----------------------------------------------------------------------------
(* The actions of an engine run.                                           *)

\* the adapter resolves the initiate call of run r
InitiateResolves(r) ==
  /\ run[r].pc = "init"
  /\ adapter.sessions + 1 \in StateIds
  /\ Commit(InitiateOk(World, r))
  /\ UNCHANGED <<sideVars, client, planVars, config, controls>>

\* the adapter rejects the initiate call of run r (caught at 480)
InitiateRejects(r) ==
  /\ run[r].pc = "init"
  /\ Commit(Return(World, r, FALSE, Err("initiateFailed", 0)))
  /\ UNCHANGED <<sideVars, client, planVars, config, controls>>

\* the adapter resolves the uploadPart call of part p with the ETag of the
\* response; the S3 adapter resolves with "" when the response shows no
\* ETag header (s3.ts:798)
PartResolves(r, p) ==
  /\ task[r][p].st = "call"
  /\ \E etag \in {Etag(mp[run[r].st].uploadId, p)}
                   \cup (IF adapter.exposesEtag THEN {} ELSE {EmptyEtag}) :
       Commit(PartResolved(World, r, p, etag))
  /\ UNCHANGED <<sideVars, client, planVars, config, controls>>

\* the adapter rejects the uploadPart call of part p
PartRejects(r, p) ==
  /\ task[r][p].st = "call"
  /\ Commit(PartRejected(World, r, p))
  /\ UNCHANGED <<sideVars, client, planVars, config, controls>>

\* the backoff sleep of part p ends: the next attempt (multipart.ts:293-296)
RetryWakes(r, p) ==
  /\ task[r][p].st = "sleep"
  /\ Commit(CallUploadPart(World, r, p, task[r][p].attempt + 1))
  /\ UNCHANGED <<sideVars, client, planVars, config, controls>>

\* upload resumes after await Promise.race / Promise.all
\* (multipart.ts:415, 460; a rejection is caught at 480)
Resumes(r) ==
  /\ run[r].pc \in {"race", "all"}
  /\ run[r].wake # "none"
  /\ Commit(IF run[r].wake = "rej"
            THEN Return(World, r, FALSE, run[r].wakeErr)
            ELSE IF run[r].pc = "race" THEN DispatchLoop(World, r)
            ELSE AfterAll(World, r))
  /\ UNCHANGED <<sideVars, client, planVars, config, controls>>

\* the adapter resolves the completeMultipartUpload call
CompleteResolves(r) ==
  /\ run[r].pc = "complete"
  /\ Commit(Return(World, r, TRUE, NoErr))
  /\ UNCHANGED <<sideVars, client, planVars, config, controls>>

\* the adapter rejects the completeMultipartUpload call (caught at 480)
CompleteRejects(r) ==
  /\ run[r].pc = "complete"
  /\ Commit(Return(World, r, FALSE, Err("completeFailed", 0)))
  /\ UNCHANGED <<sideVars, client, planVars, config, controls>>

EngineStep(r) ==
  \/ InitiateResolves(r)
  \/ InitiateRejects(r)
  \/ \E p \in PartIdx : PartResolves(r, p)
  \/ \E p \in PartIdx : PartRejects(r, p)
  \/ \E p \in PartIdx : RetryWakes(r, p)
  \/ Resumes(r)
  \/ CompleteResolves(r)
  \/ CompleteRejects(r)

EngineIdle ==
  /\ config = [partSize |-> 0, concurrency |-> 0, retries |-> 0,
               retryDelay |-> 0]
  /\ mp = [u \in StateIds |-> NoState]
  /\ run = [r \in Runs |-> IdleRun]
  /\ task = [r \in Runs |-> [p \in PartIdx |-> NoTask]]
  /\ adapter = NoAdapter

ResumableIdle ==
  /\ obj = [o \in ObjIds |-> NoObj]
  /\ store = <<>>
  /\ active = [i \in RecIds |-> 0]
  /\ call = [c \in Runs |-> NoCall]
  /\ controls = <<>>

----------------------------------------------------------------------------
(* ResumableUploader: upload, resume, pause, cancel.                       *)

\* executeUpload(state, file) up to its await of uploader.upload; the
\* constructor of the engine may throw into the catch
\* (resumable.ts:562-611, 633-653)
ExecuteUpload(W, r, ref, file) ==
  LET id == W.obj[ref].id
      W1 == [W EXCEPT !.active[id] = r, !.call[r].pc = "run"]
      cfg == Constructor(config)
  IN  IF cfg.ok
      THEN CallUpload(W1, r, cfg, file.size, W1.obj[ref].ms, ref, 0)
      ELSE LET W2 == [W1 EXCEPT !.obj[ref].status = "failed",
                                !.obj[ref].error = Err("partSizeInvalid", 0)]
               W3 == Save(W2, id, ref)
           IN  [W3 EXCEPT
                  !.active[id] = 0,
                  !.run[r] = [IdleRun EXCEPT
                                !.pc = "done", !.rec = ref,
                                !.result =
                                   [NoResult EXCEPT
                                      !.error = Err("partSizeInvalid", 0),
                                      !.size = W.obj[ref].fileSize]]]

\* a call that returns without running the engine
Fails(W, c, msg) ==
  [W EXCEPT !.call[c].pc = "done", !.call[c].ref = 0,
            !.call[c].result =
               [NoResult EXCEPT !.error = Err(msg, 0)]]

\* resume(id, file) up to its await of calculateFileHash
\* (resumable.ts:524-538)
Resume(W, c, id) ==
  LET ref == StoreGet(W.store, id)
  IN  IF ref = 0 THEN Fails([W EXCEPT !.call[c].id = id], c, "stateNotFound")
      ELSE [W EXCEPT !.call[c].pc = "hash2", !.call[c].id = id,
                     !.call[c].ref = ref]

\* the calls are made in the order of their numbers, each after the
\* digest of the one before is known
NextCall(c) ==
  call[c].pc = "idle"
    /\ \A d \in Runs : d < c => call[d].pc \in {"run", "done"}

\* upload({file, key}) is called: id = randomUUID(), and the hash is
\* being computed (resumable.ts:475-480)
UploadCalled(c) ==
  /\ NextCall(c)
  /\ \E file \in UploadFiles :
       call' = [call EXCEPT ![c] = [NoCall EXCEPT !.pc = "hash1",
                                                  !.op = "upload",
                                                  !.file = file,
                                                  !.key = "k", !.id = c]]
  /\ run' = World.run
  /\ UNCHANGED <<sideVars, client, planVars, config, mp, task, adapter, obj,
                 store, active, controls>>

\* upload once the hash is known: resume the record findExistingUpload
\* finds, or create, save and execute a new one (resumable.ts:483-506)
UploadHashed(c) ==
  /\ call[c].pc = "hash1"
  /\ LET C == call[c]
         found == FindExistingUpload(World, C.key, calculateFileHash(C.file),
                                     C.file.size)
         o == NewRef(World)
         W1 == [World EXCEPT
                  !.obj[o] = [id |-> C.id, key |-> C.key,
                              fileHash |-> calculateFileHash(C.file),
                              fileSize |-> C.file.size,
                              status |-> "uploading", ms |-> 0,
                              error |-> NoErr],
                  !.call[c].ref = o]
     IN  Commit(IF found # 0 THEN Resume(World, c, found)
                ELSE ExecuteUpload(Save(W1, C.id, o), c, o, C.file))
  /\ UNCHANGED <<sideVars, client, planVars, config, controls>>

\* resume(id, file) is called for a record the store holds
ResumeCalled(c) ==
  /\ NextCall(c)
  /\ \E file \in Files, id \in RecIds :
       /\ StoreGet(store, id) # 0
       /\ Commit(Resume([World EXCEPT
                           !.call[c] = [NoCall EXCEPT !.op = "resume",
                                                      !.file = file]], c, id))
  /\ UNCHANGED <<sideVars, client, planVars, config, controls>>

\* a variant of the verification that compares the sizes only
FileMatchesBySize(file, state) == file.size = state.fileSize

\* the file is the one the record describes (resumable.ts:538-539)
FileMatches(file, state) ==
  calculateFileHash(file) = state.fileHash /\ file.size = state.fileSize

\* resume after calculateFileHash: verify the file, mark the record
\* uploading, save it and execute (resumable.ts:538-556)
ResumeHashed(c) ==
  /\ call[c].pc = "hash2"
  /\ LET C == call[c]
         state == obj[C.ref]
         W1 == [World EXCEPT !.obj[C.ref].status = "uploading"]
     IN  Commit(IF ~FileMatches(C.file, state)
                THEN Fails(World, c, "fileMismatch")
                ELSE ExecuteUpload(Save(W1, C.id, C.ref), c, C.ref, C.file))
  /\ UNCHANGED <<sideVars, client, planVars, config, controls>>

\* activeUploads.get(id)?.abort() (resumable.ts:662-665, 681-684)
Abort(W, id) ==
  IF W.active[id] # 0 THEN [W EXCEPT !.run[W.active[id]].aborted = TRUE]
  ELSE W

\* pause(id) (resumable.ts:661-673)
Pause(W, id) ==
  LET W1 == Abort(W, id)
      ref == StoreGet(W1.store, id)
  IN  IF ref = 0 THEN W1
      ELSE Save([W1 EXCEPT !.obj[ref].status = "paused"], id, ref)

\* cancel(id), with MultipartUploader.abort: the adapter is asked to abort
\* the session the stored record names (resumable.ts:680-698,
\* multipart.ts:527-534)
Cancel(W, id) ==
  LET W1 == Abort(W, id)
      ref == StoreGet(W1.store, id)
      W2 == Save([W1 EXCEPT !.obj[ref].status = "cancelled"], id, ref)
  IN  IF ref = 0 THEN W1
      ELSE IF W2.obj[ref].ms = 0 THEN W2
      ELSE [W2 EXCEPT !.adapter.aborts =
                         Append(@, W2.mp[W2.obj[ref].ms].uploadId)]

\* pause(id) is called for an upload in progress
PauseCalled(id) ==
  /\ Len(controls) < MaxControls
  /\ active[id] # 0
  /\ Commit(Pause(World, id))
  /\ controls' = Append(controls, [op |-> "pause", id |-> id])
  /\ UNCHANGED <<sideVars, client, planVars, config>>

\* cancel(id) is called for an upload in progress
CancelCalled(id) ==
  /\ Len(controls) < MaxControls
  /\ active[id] # 0
  /\ Commit(Cancel(World, id))
  /\ controls' = Append(controls, [op |-> "cancel", id |-> id])
  /\ UNCHANGED <<sideVars, client, planVars, config>>

\* Time passes, one auto-save interval at a time. Only the callback of an
\* upload in progress reads the clock, and only to compare Date.now() -
\* lastSaveTime with the interval: the model keeps that difference, up to
\* the interval (resumable.ts:586-596).
Tick ==
  /\ \E r \in Runs : /\ run[r].pc \notin {"idle", "done"}
                     /\ run[r].rec # 0
                     /\ run[r].sinceSave < AutoSaveInterval
  /\ run' = [r \in Runs |->
               IF run[r].pc \notin {"idle", "done"} /\ run[r].rec # 0
               THEN [run[r] EXCEPT !.sinceSave =
                       Min(@ + DEFAULT_AUTO_SAVE_INTERVAL, AutoSaveInterval),
                                   !.writes = 0]
               ELSE [run[r] EXCEPT !.writes = 0]]
  /\ UNCHANGED <<sideVars, client, planVars, config, mp, task, adapter, resumableVars>>

----------------------------------------------------------------------------
(* MultipartUploader.abort (multipart.ts:527-534), called with the state   *)
(* of a session: its key and uploadId.                                     *)

\* the calls of abort in a behaviour
MaxAborts == 3

\* the keys of the sessions given to abort
AbortKeys == {"a", "b"}

\* no call of abort is in progress: the calls storage.abortMultipartUpload
\* received, how many calls of abort resolved and how many rejected, and how
\* many failures of the adapter were caught
NoAbort ==
  [pc |-> "idle", key |-> "", uploadId |-> 0, sent |-> <<>>,
   resolved |-> 0, rejected |-> 0, caught |-> 0]

\* abort(storage, state) up to its await (multipart.ts:527-530)
AbortEntered(A, key, uploadId) ==
  [A EXCEPT !.pc = "call", !.key = key, !.uploadId = uploadId,
            !.sent = Append(@, [key |-> key, uploadId |-> uploadId])]

\* storage.abortMultipartUpload resolved: abort returns
AbortResolved(A) ==
  [A EXCEPT !.pc = "idle", !.resolved = @ + 1]

\* a variant of abort without its catch clause
AbortRejectedPropagates(A) ==
  [A EXCEPT !.pc = "idle", !.rejected = @ + 1]

\* storage.abortMultipartUpload rejected: the catch clause swallows the
\* error and abort returns (multipart.ts:531-533)
AbortRejected(A) ==
  [A EXCEPT !.pc = "idle", !.resolved = @ + 1, !.caught = @ + 1]

\* the caller calls abort with the state of a session
AbortCalled ==
  /\ abortCall.pc = "idle"
  /\ abortCall.resolved + abortCall.rejected < MaxAborts
  /\ \E key \in AbortKeys, uploadId \in StateIds :
       abortCall' = AbortEntered(abortCall, key, uploadId)
  /\ UNCHANGED <<server, signer, stateStore, scanner, client,
                 planVars,
                 engineVars, resumableVars>>

\* the adapter resolves the abortMultipartUpload call
AbortResolves ==
  /\ abortCall.pc = "call"
  /\ abortCall' = AbortResolved(abortCall)
  /\ UNCHANGED <<server, signer, stateStore, scanner, client,
                 planVars,
                 engineVars, resumableVars>>

\* the adapter rejects the abortMultipartUpload call
AbortRejects ==
  /\ abortCall.pc = "call"
  /\ abortCall' = AbortRejected(abortCall)
  /\ UNCHANGED <<server, signer, stateStore, scanner, client,
                 planVars,
                 engineVars, resumableVars>>

----------------------------------------------------------------------------
(* MultipartUploadHandler (server/mod.ts:216-499): the handlers of the     *)
(* upload server over a storage adapter.  Strings are sequences of         *)
(* characters (index field) or of tokens (MIME types); sizes are in MiB.   *)

\* maxPartSize: config.maxPartSize || 100 MiB
DEFAULT_MAX_PART_SIZE == 100

\* maxFileSize: config.maxFileSize || 5 GiB
DEFAULT_MAX_FILE_SIZE == 5120

\* the largest chunk index a client sends
MaxIndex == 11

\* the largest number of requests the server handles in a behaviour
MaxRequests == 3

\* the largest number of init requests the server handles in a behaviour
MaxInits == 2

DigitChars == <<"0", "1", "2", "3", "4", "5", "6", "7", "8", "9">>

\* the value of a decimal digit character
DigitValue(ch) == (CHOOSE d \in 1 .. 10 : DigitChars[d] = ch) - 1

IsDigit(ch) == \E d \in 1 .. 10 : DigitChars[d] = ch

\* chunk.index.toString(): the decimal digits of a non-negative integer
RECURSIVE IndexToString(_)
IndexToString(i) ==
  IF i < 10 THEN <<DigitChars[i + 1]>>
  ELSE IndexToString(i \div 10) \o <<DigitChars[(i % 10) + 1]>>

\* the digits parseInt consumes from position k on: it stops at the first
\* character that is not a digit
RECURSIVE ParseDigits(_, _, _)
ParseDigits(s, k, acc) ==
  IF k > Len(s) \/ ~IsDigit(s[k]) THEN acc
  ELSE ParseDigits(s, k + 1, 10 * acc + DigitValue(s[k]))

\* parseInt(indexStr, 10): an optional sign and the leading digits; NaN
\* when there is no digit (NaN and -1 are both refused by handleChunk)
parseInt(s) ==
  IF s /= <<>> /\ IsDigit(s[1]) THEN ParseDigits(s, 1, 0)
  ELSE IF Len(s) > 1 /\ s[1] = "-" /\ IsDigit(s[2])
       THEN 0 - ParseDigits(s, 2, 0)
       ELSE NaN

\* the index fields of chunk requests: the indices the client formats and
\* fields that are no decimal number
IndexStrings ==
  {IndexToString(i) : i \in 0 .. MaxIndex}
    \cup {<<>>, <<"x">>, <<"-", "1">>, <<"1", "x">>}

\* MIME types and patterns, as token sequences ("image/png")
MimePng == <<"image", "/", "png">>

MimeGif == <<"image", "/", "gif">>

MimeJs == <<"application", "/", "javascript">>

MimeImages == <<"image", "/", "*">>

\* the mimeType field of init requests (<<>>: not given)
MimeTypes == {<<>>, MimePng, MimeGif, MimeJs}

\* pattern.endsWith("/*")
EndsWithWildcard(pattern) ==
  /\ Len(pattern) >= 2
  /\ pattern[Len(pattern) - 1] = "/"
  /\ pattern[Len(pattern)] = "*"

\* mimeType.startsWith(prefix)
StartsWith(mimeType, prefix) ==
  /\ Len(mimeType) >= Len(prefix)
  /\ SubSeq(mimeType, 1, Len(prefix)) = prefix

\* matchMimeType(mimeType, pattern)
matchMimeType(mimeType, pattern) ==
  IF EndsWithWildcard(pattern)
  THEN StartsWith(mimeType, SubSeq(pattern, 1, Len(pattern) - 1))
  ELSE mimeType = pattern

\* the configurations given to the constructor (0, <<>>: option not given)
ServerConfigs ==
  [maxPartSize : {0, MIN_PART_SIZE + 1},
   maxFileSize : {0, 2 * MIN_PART_SIZE},
   allowedMimeTypes : {<<>>, <<MimeImages>>, <<MimePng, MimeJs>>},
   validate : BOOLEAN]

\* constructor: the defaults of the options
ServerConstructor(c) ==
  [maxPartSize |-> IF c.maxPartSize = 0 THEN DEFAULT_MAX_PART_SIZE
                   ELSE c.maxPartSize,
   maxFileSize |-> IF c.maxFileSize = 0 THEN DEFAULT_MAX_FILE_SIZE
                   ELSE c.maxFileSize,
   allowedMimeTypes |-> c.allowedMimeTypes,
   validate |-> c.validate]

\* no request was handled
NoRequest == [op |-> "none"]

NoResponse == [status |-> 0, index |-> 0, etag |-> 0]

\* a handler over its adapter: the configuration, the number of requests
\* handled, the adapter calls made (initiateMultipartUpload, uploadPart
\* with the etag it returned or 0 when it failed, the parts of
\* completeMultipartUpload calls), the chunk responses the client holds,
\* and the last request with its response
NoServer ==
  [cfg |-> ServerConstructor([maxPartSize |-> 0, maxFileSize |-> 0,
                              allowedMimeTypes |-> <<>>,
                              validate |-> FALSE]),
   handled |-> 0, inits |-> 0, partCalls |-> {}, completeCalls |-> {},
   known |-> {}, req |-> NoRequest, res |-> NoResponse, called |-> FALSE]

\* errorResponse(message, status) and jsonResponse(data)
Respond(S, req, status, index, etag, called) ==
  [S EXCEPT !.handled = @ + 1, !.req = req, !.called = called,
            !.res = [status |-> status, index |-> index, etag |-> etag]]

\* the init requests: the fields of the JSON body (FALSE, 0, <<>>: field
\* not given), what validate answers when it is asked, and whether the
\* adapter accepts the call; and a request whose body does not parse
InitRequests(S) ==
  [op : {"init"}, json : {TRUE}, filename : BOOLEAN,
   fileSize : {0, 1, S.cfg.maxFileSize, S.cfg.maxFileSize + 1},
   chunks : {0, 1}, mimeType : MimeTypes,
   valid : {"true", "false", "throws"}, adapter : BOOLEAN]
    \cup {[op |-> "init", json |-> FALSE, filename |-> FALSE,
            fileSize |-> 0, chunks |-> 0, mimeType |-> <<>>,
            valid |-> "true", adapter |-> TRUE]}

\* allowedMimeTypes.some((t) => matchMimeType(body.mimeType, t))
SomeMatches(S, mimeType) ==
  \E k \in 1 .. Len(S.cfg.allowedMimeTypes) :
     matchMimeType(mimeType, S.cfg.allowedMimeTypes[k])

\* a variant of handleInit that asks validate after the adapter call
HandleInitValidatesLate(S, q) ==
  IF ~q.json THEN Respond(S, q, 500, 0, 0, FALSE)
  ELSE IF ~q.filename \/ q.fileSize = 0 \/ q.chunks = 0
  THEN Respond(S, q, 400, 0, 0, FALSE)
  ELSE IF q.fileSize > S.cfg.maxFileSize
  THEN Respond(S, q, 400, 0, 0, FALSE)
  ELSE IF Len(S.cfg.allowedMimeTypes) > 0 /\ q.mimeType /= <<>>
          /\ ~SomeMatches(S, q.mimeType)
  THEN Respond(S, q, 400, 0, 0, FALSE)
  ELSE IF ~q.adapter
  THEN Respond([S EXCEPT !.inits = @ + 1], q, 500, 0, 0, TRUE)
  ELSE IF S.cfg.validate /\ q.valid = "throws"
  THEN Respond([S EXCEPT !.inits = @ + 1], q, 500, 0, 0, TRUE)
  ELSE IF S.cfg.validate /\ q.valid = "false"
  THEN Respond([S EXCEPT !.inits = @ + 1], q, 400, 0, 0, TRUE)
  ELSE Respond([S EXCEPT !.inits = @ + 1], q, 200, 0, 0, TRUE)

\* handleInit (server/mod.ts:288-363): the checks in their order, then
\* initiateMultipartUpload; every exception becomes a 500 response
HandleInit(S, q) ==
  IF ~q.json THEN Respond(S, q, 500, 0, 0, FALSE)
  ELSE IF ~q.filename \/ q.fileSize = 0 \/ q.chunks = 0
  THEN Respond(S, q, 400, 0, 0, FALSE)
  ELSE IF q.fileSize > S.cfg.maxFileSize
  THEN Respond(S, q, 400, 0, 0, FALSE)
  ELSE IF Len(S.cfg.allowedMimeTypes) > 0 /\ q.mimeType /= <<>>
          /\ ~SomeMatches(S, q.mimeType)
  THEN Respond(S, q, 400, 0, 0, FALSE)
  ELSE IF S.cfg.validate /\ q.valid = "throws"
  THEN Respond(S, q, 500, 0, 0, FALSE)
  ELSE IF S.cfg.validate /\ q.valid = "false"
  THEN Respond(S, q, 400, 0, 0, FALSE)
  ELSE IF ~q.adapter
  THEN Respond([S EXCEPT !.inits = @ + 1], q, 500, 0, 0, TRUE)
  ELSE Respond([S EXCEPT !.inits = @ + 1], q, 200, 0, 0, TRUE)

\* a chunk request as the client posts it: form data with the fields
\* uploadId, index, key and file (its size)
ChunkRequest ==
  [op |-> "chunk", multipart |-> TRUE, uploadId |-> 1, hasIndex |-> TRUE,
   indexStr |-> IndexToString(0), key |-> "a", file |-> 1, adapter |-> TRUE]

\* the chunk requests: those with all fields, of any index field and file
\* size, which the adapter accepts or refuses; and those with another
\* content type or without one of the fields (0, "", FALSE: not given)
ChunkRequests(S) ==
  [op : {"chunk"}, multipart : {TRUE}, uploadId : {1}, hasIndex : {TRUE},
   indexStr : IndexStrings, key : {"a"},
   file : {1, S.cfg.maxPartSize + 1}, adapter : BOOLEAN]
    \cup {[ChunkRequest EXCEPT !.multipart = FALSE],
          [ChunkRequest EXCEPT !.uploadId = 0],
          [ChunkRequest EXCEPT !.hasIndex = FALSE, !.indexStr = <<>>],
          [ChunkRequest EXCEPT !.key = ""],
          [ChunkRequest EXCEPT !.file = 0]}

\* handleChunk (server/mod.ts:371-423)
HandleChunk(S, q) ==
  IF ~q.multipart THEN Respond(S, q, 400, 0, 0, FALSE)
  ELSE IF q.uploadId = 0 \/ ~q.hasIndex \/ q.key = "" \/ q.file = 0
  THEN Respond(S, q, 400, 0, 0, FALSE)
  ELSE IF parseInt(q.indexStr) = NaN \/ parseInt(q.indexStr) < 0
  THEN Respond(S, q, 400, 0, 0, FALSE)
  ELSE IF q.file > S.cfg.maxPartSize
  THEN Respond(S, q, 400, 0, 0, FALSE)
  ELSE IF ~q.adapter
  THEN Respond([S EXCEPT !.partCalls = @ \cup
                   {[uploadId |-> q.uploadId,
                     partNumber |-> parseInt(q.indexStr) + 1,
                     etag |-> 0]}],
               q, 500, 0, 0, TRUE)
  ELSE Respond([S EXCEPT !.partCalls = @ \cup
                   {[uploadId |-> q.uploadId,
                     partNumber |-> parseInt(q.indexStr) + 1,
                     etag |-> Etag(q.uploadId,
                                   parseInt(q.indexStr) + 1)]},
                         !.known = @ \cup
                   {[uploadId |-> q.uploadId,
                     index |-> parseInt(q.indexStr),
                     etag |-> Etag(q.uploadId,
                                   parseInt(q.indexStr) + 1)]}],
               q, 200, parseInt(q.indexStr),
               Etag(q.uploadId, parseInt(q.indexStr) + 1), TRUE)

\* the complete requests: the fields of the JSON body; the chunks are
\* chunk responses the client holds for the session
CompleteRequests(S) ==
  [op : {"complete"}, uploadId : 0 .. 1, key : {"", "a"},
   hasChunks : BOOLEAN,
   chunks : SUBSET {[index |-> c.index, etag |-> c.etag] :
                      c \in {k \in S.known : k.uploadId = 1}},
   adapter : BOOLEAN]

\* a variant of handleComplete that passes the chunk index as partNumber
CompletePartsUnshifted(q) ==
  {[uploadId |-> q.uploadId, partNumber |-> c.index, etag |-> c.etag] :
     c \in q.chunks}

\* body.chunks.map((c) => ({ partNumber: c.index + 1, etag: c.etag }))
CompleteParts(q) ==
  {[uploadId |-> q.uploadId, partNumber |-> c.index + 1, etag |-> c.etag] :
     c \in q.chunks}

\* handleComplete (server/mod.ts:431-475)
HandleComplete(S, q) ==
  IF q.uploadId = 0 \/ q.key = "" \/ ~q.hasChunks
  THEN Respond(S, q, 400, 0, 0, FALSE)
  ELSE IF ~q.adapter
  THEN Respond([S EXCEPT !.completeCalls = CompleteParts(q)],
               q, 500, 0, 0, TRUE)
  ELSE Respond([S EXCEPT !.completeCalls = CompleteParts(q)],
               q, 200, 0, 0, TRUE)

\* a client posts an init request
InitHandled ==
  /\ server.handled < MaxInits
  /\ \E q \in InitRequests(server) : server' = HandleInit(server, q)
  /\ UNCHANGED <<abortCall, signer, stateStore, scanner, client,
                 planVars,
                 engineVars, resumableVars>>

\* a client posts a chunk
ChunkHandled ==
  /\ server.handled < MaxRequests
  /\ \E q \in ChunkRequests(server) : server' = HandleChunk(server, q)
  /\ UNCHANGED <<abortCall, signer, stateStore, scanner, client,
                 planVars,
                 engineVars, resumableVars>>

\* a client posts a complete request
CompleteHandled ==
  /\ server.handled < MaxRequests
  /\ \E q \in CompleteRequests(server) :
       server' = HandleComplete(server, q)
  /\ UNCHANGED <<abortCall, signer, stateStore, scanner, client,
                 planVars,
                 engineVars, resumableVars>>

----------------------------------------------------------------------------
(* Request signing: S3Signer.sign (AWS Signature Version 4) and the native *)
(* scheme of OSSStorageAdapter.signRequest.  A header map is a JavaScript  *)
(* object: a sequence of <<name, value>> entries in insertion order with   *)
(* distinct names.  Hashes and MACs are terms over their inputs, so two    *)
(* digests are equal exactly when their inputs are.                        *)

\* the largest number of header maps the caller builds in a behaviour
MaxHeaderMaps == 2

\* the largest number of sign calls in a behaviour
MaxSigns == 2

SecondsPerDay == 86400

\* the instants of the clock, in seconds: the last second of a day and the
\* first of the next
Times == {SecondsPerDay - 1, SecondsPerDay}

HeaderObjs == 1 .. MaxHeaderMaps

\* headers[name]
Get(h, name) ==
  IF \E k \in 1 .. Len(h) : h[k][1] = name
  THEN h[CHOOSE k \in 1 .. Len(h) : h[k][1] = name][2]
  ELSE <<"undefined">>

\* headers[name] = value: an own property keeps its place, a new one is
\* added last
Put(h, name, value) ==
  IF \E k \in 1 .. Len(h) : h[k][1] = name
  THEN [k \in 1 .. Len(h) |->
          IF h[k][1] = name THEN <<name, value>> ELSE h[k]]
  ELSE Append(h, <<name, value>>)

\* key.toLowerCase(), for the header names that occur
ToLowerCase(name) ==
  CASE name = "Content-Type" -> "content-type"
    [] name = "Authorization" -> "authorization"
    [] name = "Date" -> "date"
    [] name = "X-Oss-Meta-A" -> "x-oss-meta-a"
    [] OTHER -> name

\* the lower-case header names in the order of Array.prototype.sort
SortedNames ==
  <<"authorization", "content-type", "date", "host",
    "x-amz-content-sha256", "x-amz-date", "x-amz-security-token",
    "x-oss-meta-a", "x-oss-security-token">>

Str(v) == <<"str", v>>

\* the header maps callers build
HeaderChoices ==
  {<<>>,
   <<<<"Content-Type", Str("a")>>>>,
   <<<<"content-type", Str("a")>>>>,
   <<<<"Content-Type", Str("a")>>, <<"content-type", Str("b")>>>>,
   <<<<"content-type", Str("b")>>, <<"Content-Type", Str("a")>>>>,
   <<<<"x-oss-meta-a", Str("m")>>, <<"Content-Type", Str("a")>>>>,
   <<<<"Content-Type", Str("a")>>, <<"X-Oss-Meta-A", Str("m")>>>>}

\* the characters of object keys and their awsUriEncode forms
awsUriEncode(ch) == IF ch = "!" THEN "%21" ELSE ch

\* the requests signed: an object key and the query parameters
Targets ==
  [key : {<<"a">>, <<"a", "!">>},
   query : {<<>>, <<<<"uploadId", "u">>>>}]

Payloads == 0 .. 1

\* formatAmzDate(now): the instant to the second
formatAmzDate(now) == <<"amz", now>>

\* formatDateStamp(now): the day of the instant
formatDateStamp(now) == <<"day", now \div SecondsPerDay>>

\* formatGMTDate(now)
formatGMTDate(now) == <<"gmt", now>>

\* for (const [key, value] of Object.entries(headers))
\*   lowercaseHeaders[key.toLowerCase()] = value
RECURSIVE LowercaseFrom(_, _, _)
LowercaseFrom(h, k, acc) ==
  IF k > Len(h) THEN acc
  ELSE LowercaseFrom(h, k + 1, Put(acc, ToLowerCase(h[k][1]), h[k][2]))

\* Object.keys(lowercaseHeaders).sort()
SortedKeys(lh) ==
  LET Present(n) == \E k \in 1 .. Len(lh) : lh[k][1] = n
  IN SelectSeq(SortedNames, Present)

\* parsedUrl.pathname segments through awsUriEncode
CanonicalUri(target) ==
  [k \in 1 .. Len(target.key) |-> awsUriEncode(target.key[k])]

\* S3Signer.sign (part_000:175-259): sets the headers in the caller's map,
\* signs all its headers and stores the Authorization header in it; the
\* result is the value of the caller's map on return, which is also the
\* object returned
sign(cfg, method, target, headers, payload, now) ==
  LET h1 == Put(headers, "x-amz-date", formatAmzDate(now))
      h2 == Put(h1, "host", Str("host"))
      h3 == Put(h2, "x-amz-content-sha256", <<"sha256", payload>>)
      h4 == IF cfg.token /= "" THEN
               Put(h3, "x-amz-security-token", Str(cfg.token))
            ELSE h3
      lh == LowercaseFrom(h4, 1, <<>>)
      keys == SortedKeys(lh)
      canonicalRequest ==
        <<method, CanonicalUri(target), target.query,
          [k \in 1 .. Len(keys) |-> <<keys[k], Get(lh, keys[k])>>],
          keys, <<"sha256", payload>>>>
      scope == <<formatDateStamp(now), "region", "s3", "aws4_request">>
      stringToSign ==
        <<"AWS4-HMAC-SHA256", formatAmzDate(now), scope,
          <<"sha256", canonicalRequest>>>>
      signingKey == <<"key", "secret", formatDateStamp(now), "region", "s3">>
  IN Put(h4, "Authorization",
         <<"auth", "AWS4-HMAC-SHA256", <<"id", scope>>, keys,
           <<"hmac", signingKey, stringToSign>>>>)

\* the x-oss- headers of the map as [lowerKey, value] pairs, sorted by
\* name; entries of one lower-case name keep their insertion order
OssHeaders(h) ==
  LET lower == [k \in 1 .. Len(h) |-> <<ToLowerCase(h[k][1]), h[k][2]>>]
      Named(n) == SelectSeq(lower, LAMBDA e : e[1] = n)
  IN Named("x-oss-meta-a") \o Named("x-oss-security-token")

\* the whitelisted sub-resources of the query parameters
ResourceParams(target) ==
  SelectSeq(target.query, LAMBDA e : e[1] \in {"acl", "uploadId",
                                               "partNumber", "uploads"})

\* OSSStorageAdapter.signRequest, native scheme (types.ts:578-641)
signRequest(cfg, method, target, headers, payload, now) ==
  LET h1 == Put(headers, "Date", formatGMTDate(now))
      stringToSign ==
        <<method, Get(h1, "Content-MD5"), Get(h1, "Content-Type"),
          formatGMTDate(now), OssHeaders(h1),
          <<"bucket", target.key, ResourceParams(target)>>>>
      h2 == Put(h1, "Authorization",
                <<"auth", "OSS", "id", <<"hmac", "secret", stringToSign>>>>)
  IN IF cfg.token /= "" THEN Put(h2, "x-oss-security-token", Str(cfg.token))
     ELSE h2

\* no header map was built and nothing was signed: the strategy and the
\* session token of the configuration, the header maps by reference, the
\* entries each was built with, and the sign calls with their results
NoSigner ==
  [strategy |-> "s3", token |-> "", built |-> 0,
   maps |-> [o \in HeaderObjs |-> <<>>],
   made |-> [o \in HeaderObjs |-> <<>>],
   log |-> <<>>]

\* the caller builds a header map for a request
HeadersBuilt ==
  /\ signer.built < MaxHeaderMaps
  /\ \E h \in HeaderChoices :
       signer' = [signer EXCEPT !.built = @ + 1,
                                !.maps[signer.built + 1] = h,
                                !.made[signer.built + 1] = h]
  /\ UNCHANGED <<abortCall, server, stateStore, scanner, client,
                 planVars,
                 engineVars, resumableVars>>

\* the result of a sign call of either strategy
Signed(G, target, o, payload, now) ==
  IF G.strategy = "s3"
  THEN sign(G, "PUT", target, G.maps[o], payload, now)
  ELSE signRequest(G, "PUT", target, G.maps[o], payload, now)

\* the caller signs a request, passing one of its header maps
SignCalled ==
  /\ Len(signer.log) < MaxSigns
  /\ \E o \in 1 .. signer.built, target \in Targets,
        payload \in Payloads, now \in Times :
       signer' =
         [signer EXCEPT
            !.maps[o] = Signed(signer, target, o, payload, now),
            !.log = Append(@,
               [target |-> target, payload |-> payload, now |-> now,
                obj |-> o, headers |-> signer.made[o],
                fresh |-> signer.maps[o] = signer.made[o],
                authorization |->
                  Get(Signed(signer, target, o, payload, now),
                      "Authorization")])]
  /\ UNCHANGED <<abortCall, server, stateStore, scanner, client,
                 planVars,
                 engineVars, resumableVars>>

----------------------------------------------------------------------------
(* Expiry of stored records: MemoryStateStore.save and cleanup with the    *)
(* updatedAt stamps (resumable.ts:214-255) and ResumableUploader.cleanup   *)
(* (resumable.ts:742-744).  Time is in seconds.                            *)

\* stateExpiry: config.stateExpiry || 7 days
DEFAULT_STATE_EXPIRY == 604800

\* the largest number of times the clock advances in a behaviour
MaxTicks == 2

\* the largest number of save calls in a behaviour
MaxSaves == 2

RecordIds == 1 .. 2

Statuses ==
  {"pending", "uploading", "paused", "completed", "failed", "cancelled"}

\* the stateExpiry options given to the constructor (0: not given)
ExpiryConfigs == 0 .. 2

\* constructor (resumable.ts:432)
StateExpiry(c) == IF c = 0 THEN DEFAULT_STATE_EXPIRY ELSE c

\* an empty store: the effective stateExpiry, the clock with the number of
\* its advances, the entries of the Map in insertion order, the number of
\* saves, and for the last cleanup the entries before it
NoStateStore ==
  [stateExpiry |-> DEFAULT_STATE_EXPIRY, now |-> 0, ticks |-> 0,
   states |-> <<>>, saves |-> 0, last |-> "none", before |-> <<>>]

\* this.states.set(id, { ...state, updatedAt: Date.now() })
MemorySave(M, id, status) ==
  LET entry == [id |-> id, status |-> status, updatedAt |-> M.now]
  IN [M EXCEPT !.saves = @ + 1, !.last = "save",
               !.states =
                 IF \E k \in 1 .. Len(@) : @[k].id = id
                 THEN [k \in 1 .. Len(@) |->
                         IF @[k].id = id THEN entry ELSE @[k]]
                 ELSE Append(@, entry)]

\* a variant of cleanup that never deletes the record of an upload in
\* progress
MemoryCleanupSparesUploading(M, maxAge) ==
  [M EXCEPT !.last = "cleanup", !.before = M.states,
            !.states = SelectSeq(@, LAMBDA s :
                          \/ ~(M.now - s.updatedAt > maxAge)
                          \/ s.status = "uploading")]

\* MemoryStateStore.cleanup(maxAge) (resumable.ts:247-255)
MemoryCleanup(M, maxAge) ==
  [M EXCEPT !.last = "cleanup", !.before = M.states,
            !.states = SelectSeq(@, LAMBDA s :
                          ~(M.now - s.updatedAt > maxAge))]

\* a record is saved
RecordSaved ==
  /\ stateStore.saves < MaxSaves
  /\ \E id \in RecordIds, status \in Statuses :
       stateStore' = MemorySave(stateStore, id, status)
  /\ UNCHANGED <<abortCall, server, signer, scanner, client, planVars,
                 engineVars,
                 resumableVars>>

\* time passes: a second, or the default expiry
ClockAdvances ==
  /\ stateStore.ticks < MaxTicks
  /\ \E d \in {1, DEFAULT_STATE_EXPIRY} :
       stateStore' = [stateStore EXCEPT !.now = @ + d, !.ticks = @ + 1,
                                        !.last = "tick"]
  /\ UNCHANGED <<abortCall, server, signer, scanner, client, planVars,
                 engineVars,
                 resumableVars>>

\* ResumableUploader.cleanup()
CleanupCalled ==
  /\ stateStore.last /= "cleanup"
  /\ stateStore' = MemoryCleanup(stateStore, stateStore.stateExpiry)
  /\ UNCHANGED <<abortCall, server, signer, scanner, client, planVars,
                 engineVars,
                 resumableVars>>

----------------------------------------------------------------------------
(* CachedScanner (part_002:711-826): the cache of scan results by the      *)
(* SHA-256 of the content.  Time is in ms; a content stands for its hash.  *)

\* ttl: config.ttl || 3600000
DEFAULT_SCAN_TTL == 3600000

\* maxSize: config.maxSize || 10000
DEFAULT_SCAN_MAX_SIZE == 10000

\* the largest maxSize configured (0: not configured)
MaxScanSize == 2

\* the contents scanned: distinct contents have distinct hashes
MaxContents == 3

Contents == 1 .. MaxContents

\* the scan calls of a behaviour
MaxScans == 4

\* the times the clock advances in a behaviour
MaxScanTicks == 2

\* the configured ttl values, in ms (0: not configured)
ScanTtls == {0, 2}

\* constructor (part_002:725-733)
ScannerConstructor(c) ==
  [enabled |-> c.enabled,
   ttl |-> IF c.ttl = 0 THEN DEFAULT_SCAN_TTL ELSE c.ttl,
   maxSize |-> IF c.maxSize = 0 THEN DEFAULT_SCAN_MAX_SIZE ELSE c.maxSize]

\* the outcome of no scan
NoScan == [hit |-> FALSE, key |-> 0, expiresAt |-> 0, now |-> 0]

\* a CachedScanner that has not been used: the config, Date.now(), the
\* cache as <<key, expiresAt>> entries in Map order, the contents whose
\* scan by the wrapped scanner is in flight, the scans called, and what
\* the latest call found in the cache
NoScanner ==
  [cfg |-> ScannerConstructor([enabled |-> TRUE, ttl |-> 0, maxSize |-> 0]),
   now |-> 0, ticks |-> 0, cache |-> <<>>, pending |-> {}, scans |-> 0,
   last |-> NoScan]

\* this.cache.get(key), as the place of the entry (0: undefined)
CacheGet(cache, key) ==
  LET hits == {i \in DOMAIN cache : cache[i][1] = key}
  IN  IF hits = {} THEN 0 ELSE CHOOSE i \in hits : TRUE

\* cleanupCache (part_002:791-814): the expired entries go; if the cache
\* is still full, the Math.floor(maxSize / 4) entries that expire first
\* go (Array.prototype.sort is stable)
cleanupCache(cache, maxSize, now) ==
  LET live == SelectSeq(cache, LAMBDA e : e[2] > now)
      Older(i, j) == \/ live[i][2] < live[j][2]
                     \/ live[i][2] = live[j][2] /\ i < j
      gone == {i \in DOMAIN live :
                 Cardinality({j \in DOMAIN live : Older(j, i)})
                   < maxSize \div 4}
      Kept(i) == IF i \in gone THEN "drop" ELSE "keep"
      places == SelectIdx([i \in DOMAIN live |-> [status |-> Kept(i)]], 1,
                          {"keep"})
  IN  IF Len(live) >= maxSize
      THEN [k \in DOMAIN places |-> live[places[k]]]
      ELSE live

\* setCache (part_002:778-788)
setCache(S, key) ==
  LET cache == IF Len(S.cache) >= S.cfg.maxSize
               THEN cleanupCache(S.cache, S.cfg.maxSize, S.now)
               ELSE S.cache
  IN  [S EXCEPT !.cache = StoreSet(cache, key, S.now + S.cfg.ttl)]

\* scan(content) up to its await of the wrapped scanner, or to its return
\* of the cached result (part_002:743-766)
ScanCalled ==
  /\ scanner.scans < MaxScans
  /\ \E key \in Contents \ scanner.pending :
       LET at == CacheGet(scanner.cache, key)
           S == [scanner EXCEPT !.scans = @ + 1]
       IN  scanner' =
             IF ~scanner.cfg.enabled
             THEN [S EXCEPT !.last = NoScan]
             ELSE IF at # 0 /\ scanner.cache[at][2] > scanner.now
             THEN [S EXCEPT !.last = [hit |-> TRUE, key |-> key,
                                      expiresAt |-> scanner.cache[at][2],
                                      now |-> scanner.now]]
             ELSE [S EXCEPT !.last = [NoScan EXCEPT !.key = key,
                                                    !.now = scanner.now],
                            !.pending = @ \cup {key}]
  /\ UNCHANGED <<abortCall, server, signer, stateStore, client, planVars,
                 engineVars, resumableVars>>

\* the wrapped scanner resolved: the result is cached (part_002:768-773)
ScanResolves ==
  /\ \E key \in scanner.pending :
       scanner' = setCache([scanner EXCEPT !.pending = @ \ {key}], key)
  /\ UNCHANGED <<abortCall, server, signer, stateStore, client, planVars,
                 engineVars, resumableVars>>

\* Date.now() advances by one ms or by the ttl
ScanClock ==
  /\ scanner.ticks < MaxScanTicks
  /\ \E d \in {1, scanner.cfg.ttl} :
       scanner' = [scanner EXCEPT !.now = @ + d, !.ticks = @ + 1]
  /\ UNCHANGED <<abortCall, server, signer, stateStore, client, planVars,
                 engineVars, resumableVars>>

SideIdle ==
  /\ abortCall = NoAbort
  /\ scanner = NoScanner
  /\ server = NoServer
  /\ signer = NoSigner
  /\ stateStore = NoStateStore

----------------------------------------------------------------------------
(* UploadClient (utils.ts:977-1671): upload, resume, pause and cancel of   *)
(* the browser client, over localStorage and the upload server.  Files    *)
(* are Uint8Arrays; uploadChunk stands for the request with its retries.  *)

\* chunkSize: config.chunkSize || 5 MiB
DEFAULT_CHUNK_SIZE == 5

\* the calls of UploadClient.upload / resume in a behaviour
ClientCalls == {1, 2}

\* the largest number of chunks of a file the client uploads
MaxChunks == 2

ChunkIdx == 1 .. MaxChunks

\* the ids of upload states (crypto.randomUUID: call c draws id c)
ClientIds == ClientCalls

\* the uploadIds the server gives out
ServerIds == 1 .. 2

\* the files given to the client: a length and the bytes
ClientFileA == [size |-> DEFAULT_CHUNK_SIZE + 1, content |-> 1]

ClientFileB == [size |-> DEFAULT_CHUNK_SIZE + 1, content |-> 2]

ClientFileS == [size |-> DEFAULT_CHUNK_SIZE, content |-> 1]

ClientFiles == {ClientFileA, ClientFileB, ClientFileS}

\* calculateFileHash of a Uint8Array: SHA-256 of all its bytes
\* (utils.ts:884-911)
ClientFileHash(f) == <<f.size, f.content>>

NewChunk(i, s, e) ==
  [index |-> i, start |-> s, end |-> e, size |-> e - s, status |-> "pending",
   etag |-> NoEtag]

RECURSIVE ChunksFrom(_, _, _, _)
\* the while loop of calculateChunks (utils.ts:1160-1174)
ChunksFrom(index, offset, fileSize, chunkSize) ==
  IF offset < fileSize
  THEN <<NewChunk(index, offset, Min(offset + chunkSize, fileSize))>>
         \o ChunksFrom(index + 1, Min(offset + chunkSize, fileSize),
                       fileSize, chunkSize)
  ELSE <<>>

\* UploadClient.calculateChunks (utils.ts:1154-1177)
calculateChunks(fileSize) == ChunksFrom(0, 0, fileSize, DEFAULT_CHUNK_SIZE)

\* no UploadState
NoUpload ==
  [id |-> 0, fileSize |-> 0, fileHash |-> <<>>, uploadId |-> 0,
   status |-> "", chunks |-> <<>>]

\* no progress event of the client
NoClientProgress ==
  [loaded |-> 0, total |-> 0, percentage |-> 0, completedChunks |-> 0,
   totalChunks |-> 0, status |-> ""]

NoClientResult == [success |-> FALSE, error |-> ""]

\* a call of upload / resume that has not been made
NoClientCall ==
  [pc |-> "idle", op |-> "", file |-> [size |-> 0, content |-> 0],
   st |-> NoUpload, aborted |-> FALSE, completedSize |-> 0,
   pend |-> <<>>, next |-> 1, queue |-> <<>>, snap |-> {}, wake |-> "none",
   wakeErr |-> "", tasks |-> [i \in ChunkIdx |-> "none"],
   \* options.onProgress: the events received and the last of them
   events |-> 0, progress |-> NoClientProgress,
   \* options.onStateChange: the status in the last state received
   seen |-> "",
   result |-> NoClientResult]

\* an UploadClient that has not been used: its config, localStorage by
\* state id, activeUploads (id -> the call whose abort it holds), the calls,
\* and what the server was asked
NoClient ==
  [concurrency |-> 1, persistState |-> TRUE,
   storage |-> [id \in ClientIds |-> NoUpload],
   active |-> [id \in ClientIds |-> 0],
   calls |-> [c \in ClientCalls |-> NoClientCall],
   inits |-> 0, completes |-> <<>>, controls |-> <<>>]

\* saveState (utils.ts:1182-1191): JSON.stringify of the state
ClientSave(K, c) ==
  IF K.persistState
  THEN [K EXCEPT !.storage[K.calls[c].st.id] = K.calls[c].st]
  ELSE K

\* deleteState (utils.ts:1211-1220)
ClientDelete(K, id) ==
  IF K.persistState THEN [K EXCEPT !.storage[id] = NoUpload] ELSE K

\* options.onStateChange?.(state)
ClientNotify(K, c) == [K EXCEPT !.calls[c].seen = K.calls[c].st.status]

\* updateProgress of executeUpload (utils.ts:1313-1332)
ClientProgress(K, c) ==
  LET C == K.calls[c]
  IN  [K EXCEPT
         !.calls[c].events = @ + 1,
         !.calls[c].progress =
            [loaded |-> C.completedSize,
             total |-> C.st.fileSize,
             percentage |-> Percentage(C.completedSize, C.st.fileSize),
             completedChunks |->
                Len(SelectIdx(C.st.chunks, 1, {"completed"})),
             totalChunks |-> Len(C.st.chunks),
             status |-> C.st.status]]

\* the uploadTasks of call c that have not settled, but for i
ClientUnsettled(K, c, i) ==
  {j \in ChunkIdx \ {i} : K.calls[c].tasks[j] = "call"}

\* executeUpload returns: the finally clause (utils.ts:1452-1454); the
\* locals are gone, but for what an unsettled uploadTask holds
ClientReturn(K, c, success, error) ==
  [K EXCEPT !.calls[c].pc = "done",
            !.calls[c].pend = <<>>,
            !.calls[c].next = 1,
            !.calls[c].queue = <<>>,
            !.calls[c].snap = {},
            !.calls[c].wake = "none",
            !.calls[c].wakeErr = "",
            !.calls[c].completedSize =
               IF ClientUnsettled(K, c, 0) = {} THEN 0 ELSE @,
            !.calls[c].result = [success |-> success, error |-> error],
            !.active[K.calls[c].st.id] = 0]

\* the catch clause of executeUpload (utils.ts:1438-1451)
ClientCatch(K, c, error) ==
  LET K1 == [K EXCEPT !.calls[c].st.status =
                         IF K.calls[c].aborted THEN "paused" ELSE "failed"]
  IN  ClientReturn(ClientNotify(ClientSave(K1, c), c), c, FALSE, error)

\* the uploadTask of one chunk up to its await, and uploadQueue.push
\* (utils.ts:1358-1392)
ClientStartTask(K, c, i) ==
  LET K1 == [K EXCEPT !.calls[c].st.chunks[i].status = "uploading"]
      K2 == ClientNotify(ClientSave(K1, c), c)
  IN  [K2 EXCEPT !.calls[c].tasks[i] = "call",
                 !.calls[c].queue = Append(@, i)]

RECURSIVE ClientLoop(_, _, _)
\* the for loop over pendingChunks from calls[c].next up to the next await;
\* resumed: the loop continues after await Promise.race
\* (utils.ts:1339-1402)
ClientLoop(K, c, resumed) ==
  LET C == K.calls[c]
  IN  IF C.next > Len(C.pend)
      THEN [K EXCEPT !.calls[c].pc = "all",
                     !.calls[c].snap = Range(C.queue),
                     !.calls[c].wake = IF C.queue = <<>> THEN "ok"
                                       ELSE "none"]
      ELSE IF ~resumed /\ C.aborted
      THEN ClientCatch(K, c, "uploadCancelled")
      ELSE IF ~resumed /\ Len(C.queue) >= K.concurrency
      THEN [K EXCEPT !.calls[c].pc = "race",
                     !.calls[c].snap = Range(C.queue),
                     !.calls[c].wake = "none"]
      ELSE ClientLoop(
             [ClientStartTask(K, c, C.pend[C.next])
                EXCEPT !.calls[c].next = @ + 1], c, FALSE)

\* executeUpload up to its await of initUpload (utils.ts:1283-1299)
ClientExecute(K, c, state) ==
  [K EXCEPT !.calls[c].pc = "init",
            !.calls[c].st = state,
            !.calls[c].aborted = FALSE,
            !.active[state.id] = c]

\* initUpload resolved (utils.ts:1301-1337)
ClientInitResolved(K, c) ==
  LET K1 == [K EXCEPT !.inits = @ + 1,
                      !.calls[c].st.uploadId = K.inits + 1,
                      !.calls[c].st.status = "uploading"]
      K2 == ClientNotify(ClientSave(K1, c), c)
      K3 == [K2 EXCEPT
               !.calls[c].completedSize = 0,
               !.calls[c].queue = <<>>,
               !.calls[c].pend =
                  SelectIdx(K2.calls[c].st.chunks, 1, {"pending", "failed"}),
               !.calls[c].next = 1]
  IN  ClientLoop(K3, c, FALSE)

\* a settled uploadTask: its finally callback (utils.ts:1395-1398) and the
\* pending Promise.race / Promise.all of the call
ClientSettle(K, c, i, outcome, error) ==
  LET C == K.calls[c]
      T == [C.tasks EXCEPT ![i] = outcome]
      hit == C.pc \in {"race", "all"} /\ i \in C.snap /\ C.wake = "none"
      wake == IF ~hit THEN C.wake
              ELSE IF outcome = "rej" THEN "rej"
              ELSE IF C.pc = "race" THEN "ok"
              ELSE IF \A j \in C.snap : T[j] = "ok" THEN "ok"
              ELSE "none"
  IN  [K EXCEPT !.calls[c].tasks = T,
                !.calls[c].queue = Without(@, i),
                !.calls[c].completedSize =
                   IF C.pc = "done" /\ ClientUnsettled(K, c, i) = {}
                   THEN 0 ELSE @,
                !.calls[c].wake = wake,
                !.calls[c].wakeErr = IF hit /\ wake = "rej" THEN error ELSE @]

\* uploadChunk resolved (utils.ts:1373-1379)
ClientChunkResolved(K, c, i) ==
  LET C == K.calls[c]
      K1 == [K EXCEPT
               !.calls[c].st.chunks[i].etag = Etag(C.st.uploadId, i),
               !.calls[c].st.chunks[i].status = "completed",
               !.calls[c].completedSize = @ + C.st.chunks[i].size]
      K2 == ClientNotify(ClientSave(ClientProgress(K1, c), c), c)
  IN  ClientSettle(K2, c, i, "ok", "")

\* uploadChunk rejected (utils.ts:1380-1389)
ClientChunkRejected(K, c, i) ==
  LET K1 == [K EXCEPT !.calls[c].st.chunks[i].status = "failed"]
      K2 == ClientNotify(ClientSave(K1, c), c)
  IN  ClientSettle(K2, c, i, "rej", "chunkFailed")

\* executeUpload after Promise.all resolved (utils.ts:1404-1420)
ClientAfterAll(K, c) ==
  LET failedChunks ==
        SelectIdx(K.calls[c].st.chunks, 1, {"pending", "uploading", "failed"})
  IN  IF Len(failedChunks) > 0
      THEN ClientCatch(K, c, "chunksUploadFailed")
      ELSE [K EXCEPT !.calls[c].pc = "complete"]

\* completeUpload resolved (utils.ts:1415-1437)
ClientCompleteResolved(K, c) ==
  LET C == K.calls[c]
      K1 == [K EXCEPT
               !.completes =
                  Append(@, [uploadId |-> C.st.uploadId,
                             etags |-> [i \in DOMAIN C.st.chunks |->
                                          C.st.chunks[i].etag]]),
               !.calls[c].st.status = "completed"]
      K2 == ClientProgress(ClientDelete(K1, C.st.id), c)
  IN  ClientReturn(K2, c, TRUE, "")

\* a call that returns without executeUpload
ClientFails(K, c, error) ==
  [K EXCEPT !.calls[c].pc = "done",
            !.calls[c].result = [success |-> FALSE, error |-> error]]

\* getPendingUploads (utils.ts:1555-1585): the stored states that are
\* pending, uploading or paused
ClientPending(K) ==
  {id \in ClientIds : K.storage[id].status \in {"pending", "uploading",
                                               "paused"}}

\* findExistingUpload (utils.ts:1490-1499): the first pending state of the
\* file, in the order of the storage keys (0: none)
ClientFind(K, fileHash, fileSize) ==
  LET found == {id \in ClientPending(K) :
                  /\ K.storage[id].fileHash = fileHash
                  /\ K.storage[id].fileSize = fileSize}
  IN  IF found = {} THEN 0 ELSE CHOOSE id \in found : \A j \in found : id <= j

\* resumeUpload up to its await of calculateFileHash (utils.ts:1460-1468)
ClientResumeUpload(K, c, state) ==
  [K EXCEPT !.calls[c].pc = "rhash", !.calls[c].st = state]

\* the calls are made in order, each once the one before is past hashing
ClientNextCall(c) ==
  /\ client.calls[c].pc = "idle"
  /\ \A d \in ClientCalls :
       d < c => client.calls[d].pc \notin {"idle", "hash", "rhash"}

\* upload(file) is called (utils.ts:1229-1243)
ClientUploadCalled(c) ==
  /\ ClientNextCall(c)
  /\ \E f \in {ClientFileA, ClientFileS} :
       client' = [client EXCEPT !.calls[c] =
                    [NoClientCall EXCEPT !.pc = "hash", !.op = "upload",
                                         !.file = f]]
  /\ UNCHANGED <<sideVars, planVars, engineVars, resumableVars>>

\* upload after its hash is known (utils.ts:1245-1271)
ClientUploadHashed(c) ==
  /\ client.calls[c].pc = "hash"
  /\ LET f == client.calls[c].file
         existing == IF client.persistState
                     THEN ClientFind(client, ClientFileHash(f), f.size)
                     ELSE 0
     IN  client' =
           IF existing # 0
           THEN ClientResumeUpload(client, c, client.storage[existing])
           ELSE ClientExecute(client, c,
                  [id |-> c, fileSize |-> f.size,
                   fileHash |-> ClientFileHash(f), uploadId |-> 0,
                   status |-> "pending",
                   chunks |-> calculateChunks(f.size)])
  /\ UNCHANGED <<sideVars, planVars, engineVars, resumableVars>>

\* resume(uploadId, file) is called (utils.ts:1509-1526)
ClientResumeCalled(c) ==
  /\ ClientNextCall(c)
  /\ \E id \in ClientIds, f \in ClientFiles :
       LET K == [client EXCEPT !.calls[c] =
                   [NoClientCall EXCEPT !.op = "resume", !.file = f]]
           state == IF K.persistState THEN K.storage[id] ELSE NoUpload
       IN  client' = IF state = NoUpload
                     THEN ClientFails(K, c, "stateNotFound")
                     ELSE ClientResumeUpload(K, c, state)
  /\ UNCHANGED <<sideVars, planVars, engineVars, resumableVars>>

\* resumeUpload after its hash is known (utils.ts:1468-1484)
ClientResumeHashed(c) ==
  /\ client.calls[c].pc = "rhash"
  /\ LET C == client.calls[c]
     IN  client' =
           IF \/ ClientFileHash(C.file) # C.st.fileHash
              \/ C.file.size # C.st.fileSize
           THEN ClientFails(client, c, "fileMismatch")
           ELSE ClientExecute(client, c, C.st)
  /\ UNCHANGED <<sideVars, planVars, engineVars, resumableVars>>

\* the server answers the init request
ClientInitResolves(c) ==
  /\ client.calls[c].pc = "init"
  /\ client.inits + 1 \in ServerIds
  /\ client' = ClientInitResolved(client, c)
  /\ UNCHANGED <<sideVars, planVars, engineVars, resumableVars>>

\* the init request fails (caught at 1438)
ClientInitRejects(c) ==
  /\ client.calls[c].pc = "init"
  /\ client' = ClientCatch(client, c, "initFailed")
  /\ UNCHANGED <<sideVars, planVars, engineVars, resumableVars>>

\* the server answers the request of chunk i
ClientChunkResolves(c, i) ==
  /\ client.calls[c].tasks[i] = "call"
  /\ client' = ClientChunkResolved(client, c, i)
  /\ UNCHANGED <<sideVars, planVars, engineVars, resumableVars>>

\* the request of chunk i fails for the last time
ClientChunkRejects(c, i) ==
  /\ client.calls[c].tasks[i] = "call"
  /\ client' = ClientChunkRejected(client, c, i)
  /\ UNCHANGED <<sideVars, planVars, engineVars, resumableVars>>

\* executeUpload resumes after await Promise.race / Promise.all
ClientResumes(c) ==
  /\ client.calls[c].pc \in {"race", "all"}
  /\ client.calls[c].wake # "none"
  /\ client' = IF client.calls[c].wake = "rej"
               THEN ClientCatch(client, c, client.calls[c].wakeErr)
               ELSE IF client.calls[c].pc = "race"
               THEN ClientLoop(client, c, TRUE)
               ELSE ClientAfterAll(client, c)
  /\ UNCHANGED <<sideVars, planVars, engineVars, resumableVars>>

\* the server answers the complete request
ClientCompleteResolves(c) ==
  /\ client.calls[c].pc = "complete"
  /\ client' = ClientCompleteResolved(client, c)
  /\ UNCHANGED <<sideVars, planVars, engineVars, resumableVars>>

\* the complete request fails (caught at 1438)
ClientCompleteRejects(c) ==
  /\ client.calls[c].pc = "complete"
  /\ client' = ClientCatch(client, c, "completeFailed")
  /\ UNCHANGED <<sideVars, planVars, engineVars, resumableVars>>

\* pause(uploadId) (utils.ts:1533-1538)
ClientPause(K, id) ==
  IF K.active[id] = 0 THEN K
  ELSE [K EXCEPT !.calls[K.active[id]].aborted = TRUE]

\* cancel(uploadId) (utils.ts:1545-1548)
ClientCancel(K, id) == ClientDelete(ClientPause(K, id), id)

\* pause(id) is called while an upload of id is active
ClientPauseCalled(id) ==
  /\ Len(client.controls) < MaxControls
  /\ client.active[id] # 0
  /\ client' = [ClientPause(client, id) EXCEPT
                  !.controls = Append(@, [op |-> "pause", id |-> id])]
  /\ UNCHANGED <<sideVars, planVars, engineVars, resumableVars>>

\* cancel(id) is called while an upload of id is active
ClientCancelCalled(id) ==
  /\ Len(client.controls) < MaxControls
  /\ client.active[id] # 0
  /\ client' = [ClientCancel(client, id) EXCEPT
                  !.controls = Append(@, [op |-> "cancel", id |-> id])]
  /\ UNCHANGED <<sideVars, planVars, engineVars, resumableVars>>

ClientIdle == client = NoClient

\* one UploadClient constructed with a concurrency and persistState
ClientInit ==
  /\ SideIdle
  /\ PlanIdle
  /\ EngineIdle
  /\ ResumableIdle
  /\ client \in {[NoClient EXCEPT !.concurrency = n, !.persistState = ps] :
                   n \in {1, 2}, ps \in BOOLEAN}

ClientNext ==
  \/ \E c \in ClientCalls : ClientUploadCalled(c)
  \/ \E c \in ClientCalls : ClientUploadHashed(c)
  \/ \E c \in ClientCalls : ClientResumeCalled(c)
  \/ \E c \in ClientCalls : ClientResumeHashed(c)
  \/ \E c \in ClientCalls : ClientInitResolves(c)
  \/ \E c \in ClientCalls : ClientInitRejects(c)
  \/ \E c \in ClientCalls, i \in ChunkIdx : ClientChunkResolves(c, i)
  \/ \E c \in ClientCalls, i \in ChunkIdx : ClientChunkRejects(c, i)
  \/ \E c \in ClientCalls : ClientResumes(c)
  \/ \E c \in ClientCalls : ClientCompleteResolves(c)
  \/ \E c \in ClientCalls : ClientCompleteRejects(c)
  \/ \E id \in ClientIds : ClientPauseCalled(id)
  \/ \E id \in ClientIds : ClientCancelCalled(id)

SpecClient == ClientInit /\ [][ClientNext]_vars

----------------------------------------------------------------------------
(* The abort specification: abort is called up to MaxAborts times, each    *)
(* time with the state of some session.                                    *)

AbortInit ==
  /\ SideIdle
  /\ client = NoClient
  /\ PlanIdle
  /\ EngineIdle
  /\ ResumableIdle

AbortNext == AbortCalled \/ AbortResolves \/ AbortRejects

SpecAbort == AbortInit /\ [][AbortNext]_vars

----------------------------------------------------------------------------
(* The server specifications: a MultipartUploadHandler of some             *)
(* configuration handles up to MaxRequests requests; one specification     *)
(* for the init handler, one for the chunk and complete handlers.          *)

ServerInitOf(configs) ==
  /\ abortCall = NoAbort
  /\ scanner = NoScanner
  /\ signer = NoSigner
  /\ stateStore = NoStateStore
  /\ \E c \in configs :
       server = [NoServer EXCEPT !.cfg = ServerConstructor(c)]
  /\ client = NoClient
  /\ PlanIdle
  /\ EngineIdle
  /\ ResumableIdle

\* the init handler under every configuration
ServerInit == ServerInitOf(ServerConfigs)

SpecServerInit == ServerInit /\ [][InitHandled]_vars

\* the chunk and complete handlers under every maxPartSize
ChunkInit ==
  ServerInitOf({c \in ServerConfigs :
                  /\ c.maxFileSize = 0
                  /\ c.allowedMimeTypes = <<>>
                  /\ ~c.validate})

ServerNext == ChunkHandled \/ CompleteHandled

SpecServer == ChunkInit /\ [][ServerNext]_vars

----------------------------------------------------------------------------
(* The signing specification: a caller of a signer of either strategy,     *)
(* with or without a session token, builds up to MaxHeaderMaps header maps *)
(* and signs up to MaxSigns requests with them.                            *)

SignerInit ==
  /\ abortCall = NoAbort
  /\ scanner = NoScanner
  /\ server = NoServer
  /\ stateStore = NoStateStore
  /\ \E strategy \in {"s3", "oss"}, token \in {"", "t"} :
       signer = [NoSigner EXCEPT !.strategy = strategy, !.token = token]
  /\ client = NoClient
  /\ PlanIdle
  /\ EngineIdle
  /\ ResumableIdle

SignerNext == HeadersBuilt \/ SignCalled

SpecSigner == SignerInit /\ [][SignerNext]_vars

----------------------------------------------------------------------------
(* The expiry specification: a ResumableUploader of some stateExpiry over  *)
(* a MemoryStateStore; records are saved, time passes, cleanup is called.  *)

CleanupInit ==
  /\ abortCall = NoAbort
  /\ scanner = NoScanner
  /\ server = NoServer
  /\ signer = NoSigner
  /\ \E c \in ExpiryConfigs :
       stateStore = [NoStateStore EXCEPT !.stateExpiry = StateExpiry(c)]
  /\ client = NoClient
  /\ PlanIdle
  /\ EngineIdle
  /\ ResumableIdle

CleanupNext == RecordSaved \/ ClockAdvances \/ CleanupCalled

SpecCleanup == CleanupInit /\ [][CleanupNext]_vars

----------------------------------------------------------------------------
(* The scanner specification: a CachedScanner built with any cache config  *)
(* scans contents, possibly several at a time, while the clock advances.   *)

ScannerInit ==
  /\ abortCall = NoAbort
  /\ server = NoServer
  /\ signer = NoSigner
  /\ stateStore = NoStateStore
  /\ \E e \in BOOLEAN, ttl \in ScanTtls, maxSize \in 0 .. MaxScanSize :
       scanner = [NoScanner EXCEPT
                    !.cfg = ScannerConstructor([enabled |-> e, ttl |-> ttl,
                                                maxSize |-> maxSize])]
  /\ client = NoClient
  /\ PlanIdle
  /\ EngineIdle
  /\ ResumableIdle

ScannerNext == ScanCalled \/ ScanResolves \/ ScanClock

SpecScanner == ScannerInit /\ [][ScannerNext]_vars

----------------------------------------------------------------------------
(* The resumable specification: one ResumableUploader over a               *)
(* MemoryStateStore; upload and resume are called up to |Runs| times,      *)
(* pause and cancel up to MaxControls times while an upload is in          *)
(* progress.                                                               *)

ResumableInit ==
  /\ SideIdle
  /\ ClientIdle
  /\ PlanIdle
  /\ config \in [partSize : {0, MIN_PART_SIZE - 1}, concurrency : {1},
                 retries : {1}, retryDelay : {0}, autoSaveInterval : {0}]
  /\ mp = [u \in StateIds |-> NoState]
  /\ run = [r \in Runs |-> IdleRun]
  /\ task = [r \in Runs |-> [p \in PartIdx |-> NoTask]]
  /\ adapter = NoAdapter
  /\ ResumableIdle

ResumableNext ==
  \/ \E c \in Runs : UploadCalled(c)
  \/ \E c \in Runs : UploadHashed(c)
  \/ \E c \in Runs : ResumeCalled(c)
  \/ \E c \in Runs : ResumeHashed(c)
  \/ \E id \in RecIds : PauseCalled(id)
  \/ \E id \in RecIds : CancelCalled(id)
  \/ Tick
  \/ \E r \in Runs : EngineStep(r)

SpecResumable == ResumableInit /\ [][ResumableNext]_vars

----------------------------------------------------------------------------
(* The engine specification: one MultipartUploader, constructed with any   *)
(* configuration, whose upload is called once with a new file.             *)

\* the configured retryDelay values, in ms (0: not configured)
RetryDelays == {0, 3}

EngineInit ==
  /\ SideIdle
  /\ ClientIdle
  /\ PlanIdle
  /\ config \in [partSize : {0, MIN_PART_SIZE + 1, MIN_PART_SIZE - 1,
                             MAX_PART_SIZE + 1},
                 concurrency : 0 .. MaxConfig,
                 retries : 0 .. MaxConfig,
                 retryDelay : RetryDelays]
  /\ mp = [u \in StateIds |-> NoState]
  /\ run = [r \in Runs |-> IdleRun]
  /\ task = [r \in Runs |-> [p \in PartIdx |-> NoTask]]
  /\ adapter \in {[NoAdapter EXCEPT !.exposesEtag = e] : e \in BOOLEAN}
  /\ ResumableIdle

\* the caller builds the uploader from config and calls its upload; the
\* constructor throws for a part size out of bounds (multipart.ts:211-216)
EngineUpload ==
  /\ run[1].pc = "idle"
  /\ \E file \in EngineFileSizes \cup {TooLargeFile} :
       Commit(IF Constructor(config).ok
              THEN CallUpload(World, 1, Constructor(config), file, 0, 0, 0)
              ELSE [World EXCEPT !.run[1].pc = "threw"])
  /\ UNCHANGED <<sideVars, client, planVars, config, controls>>

EngineNext == EngineUpload \/ EngineStep(1)

SpecEngine == EngineInit /\ [][EngineNext]_vars

----------------------------------------------------------------------------
(* The callback specification: one MultipartUploader whose upload is       *)
(* called with a new file and, after a failure, again with the state of    *)
(* the failed run as resumeState; each call is given an onProgress and an  *)
(* onStateChange that throws in one of its calls or in none.               *)

\* the latest call in which the caller's onStateChange throws
MaxThrowAt == 4

NotifyInit ==
  /\ SideIdle
  /\ ClientIdle
  /\ PlanIdle
  /\ config \in [partSize : {0}, concurrency : {1, 2}, retries : {0, 1},
                 retryDelay : {0}]
  /\ mp = [u \in StateIds |-> NoState]
  /\ run = [r \in Runs |-> IdleRun]
  /\ task = [r \in Runs |-> [p \in PartIdx |-> NoTask]]
  /\ adapter = NoAdapter
  /\ ResumableIdle

\* the caller calls upload with a new file
NotifyUpload ==
  /\ run[1].pc = "idle"
  /\ \E file \in EngineFileSizes, cb \in 0 .. MaxThrowAt :
       Commit(CallUpload(World, 1, Constructor(config), file, 0, 0, cb))
  /\ UNCHANGED <<sideVars, client, planVars, config, controls>>

\* the first call returned a failure: the caller calls upload again with
\* the same file and the state the callback gave it
NotifyResume ==
  /\ run[1].pc = "done"
  /\ ~run[1].result.success
  /\ run[1].st # 0
  /\ run[2].pc = "idle"
  /\ \E cb \in 0 .. MaxThrowAt :
       Commit(CallUpload(World, 2, Constructor(config), run[1].file,
                         run[1].st, 0, cb))
  /\ UNCHANGED <<sideVars, client, planVars, config, controls>>

NotifyNext ==
  \/ NotifyUpload
  \/ NotifyResume
  \/ \E r \in Runs : EngineStep(r)

SpecNotify == NotifyInit /\ [][NotifyNext]_vars

----------------------------------------------------------------------------
(* The resume specification: the first call of upload fails at any point,  *)
(* by a rejected transfer or a throwing callback, and upload is called     *)
(* again with the state it left; in the second call no callback throws and *)
(* the adapter resolves every call.                                        *)

\* the caller resumes the failed upload from the state the callback gave it
LiveResume ==
  /\ run[1].pc = "done"
  /\ ~run[1].result.success
  /\ run[1].st # 0
  /\ run[2].pc = "idle"
  /\ Commit(CallUpload(World, 2, Constructor(config), run[1].file,
                       run[1].st, 0, 0))
  /\ UNCHANGED <<sideVars, client, planVars, config, controls>>

\* a step of a run in which every call of the adapter succeeds
Succeeds(r) ==
  \/ \E p \in PartIdx : PartResolves(r, p)
  \/ Resumes(r)
  \/ CompleteResolves(r)

ResumeLiveNext ==
  \/ NotifyUpload
  \/ LiveResume
  \/ EngineStep(1)
  \/ Succeeds(2)

SpecResumeLive == NotifyInit /\ [][ResumeLiveNext]_vars

----------------------------------------------------------------------------
(* The part-plan specification: calculateParts on bounded inputs.          *)

PlanInit ==
  /\ SideIdle
  /\ ClientIdle
  /\ planIn \in [fileSize : 0 .. MaxPlanFileSize,
                 partSize : MIN_PART_SIZE .. MIN_PART_SIZE + MaxPlanExtra]
  /\ planOut = <<>>
  /\ EngineIdle
  /\ ResumableIdle

CalcParts ==
  /\ planOut = <<>>
  /\ planOut' = <<calculateParts(planIn.fileSize, planIn.partSize)>>
  /\ UNCHANGED <<sideVars, planIn, engineVars, resumableVars, client>>

PlanNext == CalcParts

SpecPlan == PlanInit /\ [][PlanNext]_vars

----------------------------------------------------------------------------
(* Claims about the engine.                                                *)

\* the parts of run r whose uploadTask has started and has not settled
\* (an adapter call or a backoff sleep is pending)
InFlight(r) == {p \in PartIdx : task[r][p].st \in {"call", "sleep"}}

StateOf(r) == mp[run[r].st]

HasState(r) == run[r].st # 0

NotCompleted(r) ==
  {p \in DOMAIN StateOf(r).parts : StateOf(r).parts[p].status # "completed"}

\* C1: in every reachable state of an upload, the number of parts whose
\* uploadPart (with its retries and backoff waits) has started and has not
\* settled is at most the concurrency of the uploader.
C1_BoundedInFlight ==
  \A r \in Runs :
    run[r].pc # "idle" => Cardinality(InFlight(r)) <= run[r].cfg.concurrency

\* C1 witness: the in-flight set is full and the loop waits in Promise.race
\* with a part left to dispatch.
C1_Witness ==
  /\ run[1].pc = "race"
  /\ run[1].next <= Len(run[1].pend)
  /\ Cardinality(InFlight(1)) = run[1].cfg.concurrency
  /\ run[1].cfg.concurrency >= 2

\* C2: for fileSize > 0 and a part size within the provider bounds, the
\* plan numbers its parts 1..n, its ranges are contiguous from 0 to
\* fileSize, the sizes sum to fileSize, and every part but the last has
\* exactly the part size (so at least the 5 MiB minimum).
C2_PlanCovers ==
  (planOut # <<>> /\ planIn.fileSize > 0) =>
    LET ps == planOut[1].parts
        n == Len(ps)
    IN  /\ planOut[1].ok
        /\ n >= 1
        /\ \A i \in 1 .. n : ps[i].partNumber = i
        /\ ps[1].start = 0
        /\ \A i \in 2 .. n : ps[i].start = ps[i - 1].end
        /\ ps[n].end = planIn.fileSize
        /\ \A i \in 1 .. n : ps[i].size = ps[i].end - ps[i].start
        /\ \A i \in 1 .. n : ps[i].size > 0
        /\ SumSizes(ps) = planIn.fileSize
        /\ \A i \in 1 .. n - 1 :
             ps[i].size = planIn.partSize /\ ps[i].size >= MIN_PART_SIZE

\* C2 witness: a plan of at least three parts whose last part is short.
C2_Witness ==
  /\ planOut # <<>>
  /\ Len(planOut[1].parts) >= 3
  /\ planOut[1].parts[Len(planOut[1].parts)].size < planIn.partSize

\* C3 (the claim as stated; the code violates it): a part whose transfer
\* always fails is attempted exactly retries + 1 times, for every
\* configured retries value including 0, before it is marked failed.
C3_AttemptsAsConfigured ==
  \A p \in PartIdx :
    (HasState(1) /\ p \in DOMAIN StateOf(1).parts
       /\ StateOf(1).parts[p].status = "failed") =>
      adapter.partCalls[StateOf(1).uploadId][p] = config.retries + 1

\* C4 (the claim as stated; the code violates it): upload does not resolve
\* before every dispatched part has settled: when the result is returned
\* no part has status uploading.
C4_NoUploadingAtReturn ==
  (run[1].pc = "done" /\ HasState(1)) =>
    \A p \in DOMAIN StateOf(1).parts :
      StateOf(1).parts[p].status # "uploading"

\* C5 (the claim as stated; the code violates it): when the dispatched
\* parts have settled and some part is not completed, upload returns
\* success=false with the aggregate error naming the number of parts that
\* are not completed, and completeMultipartUpload is not called.
C5_AggregateError ==
  (run[1].pc = "done" /\ HasState(1) /\ InFlight(1) = {}
     /\ NotCompleted(1) # {}) =>
    /\ ~run[1].result.success
    /\ run[1].result.error = Err("partsFailed", Cardinality(NotCompleted(1)))
    /\ adapter.completes = <<>>

\* C6 (the claim as stated; the code violates it): on full success
\* completeMultipartUpload is called exactly once, with one entry
\* {partNumber, etag} for every part of the plan, in ascending partNumber
\* order.
C6_CompleteListsEveryPart ==
  (run[1].pc = "done" /\ run[1].result.success) =>
    /\ Len(adapter.completes) = 1
    /\ adapter.completes[1].uploadId = StateOf(1).uploadId
    /\ LET sent == adapter.completes[1].parts
           ps == StateOf(1).parts
       IN  /\ Len(sent) = Len(ps)
           /\ \A i \in DOMAIN sent :
                sent[i].partNumber = i /\ sent[i].etag = ps[i].etag

----------------------------------------------------------------------------
(* Claims about ResumableUploader.                                         *)

\* the stored records by content, in Map order
StoreView == [i \in DOMAIN store |-> <<store[i][1], obj[store[i][2]]>>]

\* the place of record id in the store, 0 if it is not stored
StorePlace(id) ==
  IF \E i \in DOMAIN store : store[i][1] = id
  THEN CHOOSE i \in DOMAIN store : store[i][1] = id ELSE 0

\* call 1 was upload() and created record 1; call 2 was upload() of the
\* same bytes and key and looked the store up after that; no upload has
\* completed
TwoUploads ==
  /\ call[1].op = "upload" /\ call[1].pc \in {"run", "done"}
  /\ call[1].id = 1
  /\ call[2].op = "upload" /\ call[2].pc \in {"hash2", "run", "done"}
  /\ call[2].file = call[1].file /\ call[2].key = call[1].key
  /\ call[2].id = 1 \/ (StorePlace(1) # 0 /\ StorePlace(1) < StorePlace(2))
  /\ \A r \in Runs : ~run[r].result.success

\* C7 (the claim as stated; the code violates it): of two upload() calls
\* with the same bytes and key and no completion between them, the second
\* is routed through resume under the record id of the first: there is no
\* second record and no second provider session, whether the first upload
\* is still running, paused or has failed.
C7_SecondUploadResumes ==
  TwoUploads =>
    /\ call[2].id = call[1].id
    /\ Len(store) = 1
    /\ adapter.initiates <= 1

\* C8: a resume(id, file) whose file differs from the record in hash or in
\* size returns success=false with the mismatch error; the step makes no
\* adapter call, starts no upload of its own (no fresh-upload fallback)
\* and leaves the stored records as they were.
C8_MismatchRefused ==
  [][\A c \in Runs :
       (/\ call[c].pc = "hash2"
        /\ call'[c].pc # "hash2"
        /\ \/ calculateFileHash(call[c].file) # obj[call[c].ref].fileHash
           \/ call[c].file.size # obj[call[c].ref].fileSize)
       => /\ call'[c].pc = "done"
          /\ ~call'[c].result.success
          /\ call'[c].result.error = Err("fileMismatch", 0)
          /\ adapter' = adapter
          /\ run'[c] = run[c]
          /\ active' = active
          /\ StoreView' = StoreView]_vars

\* C8 witness: a resume with a file of the record's size and another
\* content has returned the mismatch error for a record that names a
\* provider session.
C8_Witness ==
  \E c \in Runs :
    /\ call[c].op = "resume" /\ call[c].pc = "done"
    /\ call[c].file = FileB
    /\ call[c].result.error = Err("fileMismatch", 0)
    /\ StorePlace(call[c].id) # 0
    /\ StoreView[StorePlace(call[c].id)][2].ms # 0

\* C9 (the claim as stated; the code violates it): when cancel(id) was
\* called once during the in-flight upload of record id and nothing else
\* touched the record, the upload ends with the stored record in status
\* cancelled and abortMultipartUpload called exactly once.
C9_CancelledIsTerminal ==
  (/\ controls = <<[op |-> "cancel", id |-> 1]>>
   /\ run[1].aborted
   /\ run[1].pc = "done"
   /\ call[2].pc = "idle") =>
    /\ StorePlace(1) # 0
    /\ StoreView[StorePlace(1)][2].status = "cancelled"
    /\ Len(adapter.aborts) = 1

\* C10 (the claim as stated; the code violates it): once pause or cancel
\* has set the abort flag of an upload, no further part of it is
\* dispatched: no uploadTask starts for a part that had not started.
C10_NoDispatchAfterAbort ==
  [][\A r \in Runs : \A p \in PartIdx :
       (run[r].aborted /\ task[r][p] = NoTask) => task'[r][p] = NoTask]_vars

\* C11 (the claim as stated; the code violates it): when pause(id) was
\* called once during the in-flight upload of record id and nothing else
\* touched the record, then after the upload has resolved the stored record
\* is still there with status paused, so that listPending returns it.
C11_PausedSurvivesReturn ==
  (/\ controls = <<[op |-> "pause", id |-> 1]>>
   /\ run[1].aborted
   /\ run[1].pc = "done"
   /\ call[2].pc = "idle") =>
    /\ StorePlace(1) # 0
    /\ StoreView[StorePlace(1)][2].status = "paused"
    /\ \E i \in DOMAIN ListPending(World) : ListPending(World)[i][1] = 1

\* the record the store holds under each id (NoObj: none)
StoredRecord ==
  [id \in RecIds |->
     IF StoreGet(store, id) = 0 THEN NoObj ELSE obj[StoreGet(store, id)]]

C13_LastCallbackTerminal ==
  \A r \in Runs :
    (run[r].pc = "done" /\ run[r].rec # 0 /\ run[r].callerSaw # "") =>
      run[r].callerSaw \in {"completed", "failed", "cancelled"}

----------------------------------------------------------------------------
(* Claims about the callbacks of the engine.                               *)

\* C14 (the claim as stated; the code violates it): the percentages given to
\* onProgress by a call of MultipartUploader.upload never decrease, and when
\* the call returns success the last of them is exactly 100, also for a call
\* that starts from a resume state.
C14_ProgressReaches100 ==
  [][\A r \in Runs :
       /\ (run[r].events > 0 /\ run'[r].events > run[r].events) =>
            run'[r].progress.percentage >= run[r].progress.percentage
       /\ (/\ run[r].pc # "done" /\ run'[r].pc = "done"
           /\ run'[r].result.success /\ run'[r].events > 0) =>
            run'[r].progress.percentage = 100]_vars

\* C16: every progress event of MultipartUploader.upload has a percentage
\* from 0 to 100, a loaded size from 0 to the total, and no more completed
\* parts than parts; also in a resumed upload and when a state-change
\* callback has thrown.
C16_ProgressInRange ==
  \A r \in Runs :
    run[r].events > 0 =>
      LET e == run[r].progress
      IN  /\ 0 <= e.percentage /\ e.percentage <= 100
          /\ 0 <= e.loaded /\ e.loaded <= e.total
          /\ e.completedParts <= e.totalParts

\* a resumed run reports its last part after the callback of the first run
\* threw at the completion of a part
C16_Witness ==
  /\ run[1].pc = "done" /\ run[1].result.error = CallbackErr
  /\ run[1].events > 0
  /\ run[2].events > 0
  /\ run[2].progress.loaded = run[2].progress.total
  /\ run[2].progress.completedParts = run[2].progress.totalParts
  /\ run[2].progress.totalParts > 1

\* C17 (the claim as stated; the code violates it): an engine run in which
\* the state-change callback has thrown ends with success=false, whether
\* the callback is the caller's or the one ResumableUploader installs, which
\* throws "upload cancelled" once the upload was paused or cancelled.
C17_ThrowFailsRun ==
  \A r \in Runs :
    (run[r].pc = "done" /\ run[r].threw) => ~run[r].result.success

\* C18 (the claim as stated; the code violates it): the status of a part
\* changes only from pending to uploading, from uploading to completed
\* (with an etag) or to failed (after the last attempt was rejected, so
\* without a new etag), and from failed to uploading; a completed part
\* never changes again.
C18_PartTransitions ==
  [][\A u \in StateIds :
       \A p \in DOMAIN mp[u].parts \cap DOMAIN mp'[u].parts :
         LET a == mp[u].parts[p]
             b == mp'[u].parts[p]
         IN  a.status # b.status =>
               /\ <<a.status, b.status>> \in
                    {<<"pending", "uploading">>, <<"uploading", "completed">>,
                     <<"uploading", "failed">>, <<"failed", "uploading">>}
               /\ b.status = "completed" => b.etag # NoEtag
               /\ b.status = "failed" => b.etag = a.etag]_vars

\* C19 (the claim as stated; the code violates it): no two upload tasks,
\* of one engine run or of two runs started for the same record, are
\* uploading the same part of the same session at the same time.
C19_OneTaskPerPart ==
  \A r1, r2 \in Runs :
    (r1 # r2 /\ run[r1].st # 0 /\ run[r1].st = run[r2].st) =>
      InFlight(r1) \cap InFlight(r2) = {}

\* C20: when the part size is below 5 MiB or above 5 GiB, or the plan of
\* the file has more than 10 000 parts, no adapter method is called for the
\* upload: no initiateMultipartUpload, uploadPart or
\* completeMultipartUpload.
C20_ConfigErrorsBeforeNetwork ==
  (/\ run[1].pc # "idle"
   /\ \/ ~Constructor(config).ok
      \/ ~calculateParts(run[1].file, Constructor(config).partSize).ok) =>
     /\ adapter.initiates = 0
     /\ \A u \in StateIds, p \in PartIdx : adapter.partCalls[u][p] = 0
     /\ adapter.completes = <<>>

\* upload has returned the failure of a plan of more than MAX_PARTS parts
C20_Witness ==
  /\ run[1].pc = "done"
  /\ run[1].file = TooLargeFile
  /\ ~run[1].result.success
  /\ run[1].result.error = Err("tooManyParts", 0)

----------------------------------------------------------------------------
(* Claims about UploadClient.                                              *)

\* C15 (the claim as stated; the code violates it): the percentages given to
\* onProgress by a call of UploadClient.upload or resume never decrease, and
\* when the call returns success the last of them is exactly 100, also for
\* a call that resumes a persisted state with completed chunks.
C15_ClientProgressReaches100 ==
  [][\A c \in ClientCalls :
       LET C == client.calls[c]
           D == client'.calls[c]
       IN  /\ (C.events > 0 /\ D.events > C.events) =>
                D.progress.percentage >= C.progress.percentage
           /\ (/\ C.pc # "done" /\ D.pc = "done"
               /\ D.result.success /\ D.events > 0) =>
                D.progress.percentage = 100]_vars

----------------------------------------------------------------------------
(* Claims about errors.                                                    *)

\* the promises uploadTask.finally(...) returns (multipart.ts:451-456) that
\* are rejected: each takes the rejection of its uploadTask, and nothing
\* handles it
FinallyRejected(r) == {p \in PartIdx : task[r][p].st = "rej"}

\* C21 (the claim as stated; the code violates it): no error of a session
\* escapes as an exception; upload resolves with success=false and an error
\* message when an adapter call failed, and with success=true only after
\* completeMultipartUpload succeeded.
C21_NoErrorEscapes ==
  \A r \in Runs :
    /\ FinallyRejected(r) = {}
    /\ run[r].pc = "done" =>
         IF run[r].result.success
         THEN \E i \in DOMAIN adapter.completes :
                adapter.completes[i].uploadId = mp[run[r].st].uploadId
         ELSE run[r].result.error.msg # ""

\* C22: abort calls the adapter's abortMultipartUpload once, with the key
\* and the uploadId of the session it was given, and resolves normally
\* whether that call succeeds or throws.
C22_AbortSwallows ==
  /\ abortCall.rejected = 0
  /\ Len(abortCall.sent) =
       abortCall.resolved + (IF abortCall.pc = "call" THEN 1 ELSE 0)
  /\ abortCall.pc = "call" =>
       abortCall.sent[Len(abortCall.sent)] =
         [key |-> abortCall.key, uploadId |-> abortCall.uploadId]

\* abort has returned after the adapter threw
C22_Witness ==
  /\ abortCall.pc = "idle"
  /\ abortCall.caught > 0
  /\ abortCall.resolved = Len(abortCall.sent)

----------------------------------------------------------------------------
(* Claims about pause and cancel of UploadClient.                          *)

\* C23 (the claim as stated; the code violates it): with persistState, once
\* cancel(id) was called on the upload in flight and that upload call has
\* resolved, no state of id is left in storage and getPendingUploads does
\* not return it.
C23_CancelRemovesState ==
  \A c \in ClientCalls :
    LET id == client.calls[c].st.id
    IN  (/\ client.persistState
         /\ client.controls = <<[op |-> "cancel", id |-> id]>>
         /\ client.calls[c].aborted
         /\ client.calls[c].pc = "done"
         /\ \A d \in ClientCalls \ {c} : client.calls[d].pc = "idle") =>
          /\ client.storage[id] = NoUpload
          /\ id \notin ClientPending(client)

\* C24 (the claim as stated; the code violates it): once pause or cancel was
\* called while the dispatch loop waits with a chunk that is not dispatched
\* yet, no request of a chunk is started any more, the complete request is
\* not sent, and the call does not resolve with success=true.
C24_NoRequestAfterAbort ==
  [][\A c \in ClientCalls :
       LET C == client.calls[c]
           D == client'.calls[c]
       IN  (C.aborted /\ C.pc = "race" /\ C.next <= Len(C.pend)) =>
             /\ \A i \in ChunkIdx : D.tasks[i] = "call" => C.tasks[i] = "call"
             /\ D.pc # "complete"
             /\ ~D.result.success]_vars

\* C25: a chunk request whose index field is the decimal form of i >= 0,
\* and which passes the checks of handleChunk, makes the handler call
\* uploadPart with partNumber i + 1 and answer with index i and the etag of
\* that call; handleComplete submits every chunk {index: i, etag} of its
\* request as {partNumber: i + 1, etag}, which is the part number the etag
\* was uploaded under.
C25_PartNumberRoundTrip ==
  /\ \A i \in 0 .. MaxIndex :
       (/\ server.req.op = "chunk"
        /\ server.req.indexStr = IndexToString(i)
        /\ server.req.multipart /\ server.req.hasIndex
        /\ server.req.uploadId /= 0 /\ server.req.key /= ""
        /\ server.req.file \in 1 .. server.cfg.maxPartSize)
         => /\ server.called
            /\ \E c \in server.partCalls :
                 c.uploadId = server.req.uploadId /\ c.partNumber = i + 1
            /\ server.res.status = 200
                 => /\ server.res.index = i
                    /\ [uploadId |-> server.req.uploadId,
                        partNumber |-> i + 1,
                        etag |-> server.res.etag] \in server.partCalls
  /\ (server.req.op = "complete" /\ server.called)
       => \A c \in server.req.chunks :
            /\ [uploadId |-> server.req.uploadId,
                partNumber |-> c.index + 1,
                etag |-> c.etag] \in server.completeCalls
            /\ [uploadId |-> server.req.uploadId,
                partNumber |-> c.index + 1,
                etag |-> c.etag] \in server.partCalls

\* a complete request with two chunks, one of a two-digit index, was
\* passed to the adapter after both chunks were uploaded
C25_Witness ==
  /\ server.req.op = "complete"
  /\ server.res.status = 200
  /\ Cardinality(server.req.chunks) = 2
  /\ \E c \in server.req.chunks : c.index >= 10
  /\ Cardinality(server.completeCalls) = 2

\* C26: an init request whose body lacks filename, fileSize or chunks,
\* whose fileSize exceeds maxFileSize, whose MIME type is covered by no
\* entry of a configured allowedMimeTypes list, or for which the configured
\* validate function returns false, is answered with status 400 and
\* initiateMultipartUpload is not called; a request for which it is called
\* is none of these.
C26_InvalidInitRefused ==
  (server.req.op = "init" /\ server.req.json)
    => /\ (\/ ~server.req.filename
           \/ server.req.fileSize = 0
           \/ server.req.chunks = 0
           \/ server.req.fileSize > server.cfg.maxFileSize
           \/ /\ server.req.mimeType /= <<>>
              /\ server.cfg.allowedMimeTypes /= <<>>
              /\ \A k \in 1 .. Len(server.cfg.allowedMimeTypes) :
                   /\ server.cfg.allowedMimeTypes[k] /= server.req.mimeType
                   /\ server.cfg.allowedMimeTypes[k]
                        /= <<server.req.mimeType[1], "/", "*">>
           \/ server.cfg.validate /\ server.req.valid = "false")
          => (server.res.status = 400 /\ ~server.called)
       /\ (server.handled = 1 /\ ~server.called) => server.inits = 0

\* validate refused a request that passed every other check, with a
\* size limit and a MIME filter configured
C26_Witness ==
  /\ server.req.op = "init"
  /\ server.req.json /\ server.req.filename /\ server.req.chunks > 0
  /\ server.req.fileSize = server.cfg.maxFileSize
  /\ server.cfg.maxFileSize < DEFAULT_MAX_FILE_SIZE
  /\ server.cfg.allowedMimeTypes = <<MimeImages>>
  /\ server.req.mimeType = MimeGif
  /\ server.cfg.validate /\ server.req.valid = "false"
  /\ server.res.status = 400
  /\ server.inits = 0

C28_CleanupByAge ==
  stateStore.last = "cleanup"
    => /\ \A k \in 1 .. Len(stateStore.before) :
            stateStore.before[k].updatedAt + stateStore.stateExpiry
              < stateStore.now
            <=> ~\E j \in 1 .. Len(stateStore.states) :
                   stateStore.states[j].id = stateStore.before[k].id
       /\ \A j \in 1 .. Len(stateStore.states) :
            \E k \in 1 .. Len(stateStore.before) :
               stateStore.states[j] = stateStore.before[k]
       /\ \A i, j \in 1 .. Len(stateStore.states) :
            i < j =>
              \E k, l \in 1 .. Len(stateStore.before) :
                 /\ k < l
                 /\ stateStore.states[i] = stateStore.before[k]
                 /\ stateStore.states[j] = stateStore.before[l]

\* a cleanup deleted the expired record of an upload in progress and kept
\* a record whose age is exactly the expiry
C28_Witness ==
  /\ stateStore.last = "cleanup"
  /\ Len(stateStore.before) = 2
  /\ Len(stateStore.states) = 1
  /\ \E k \in 1 .. 2 :
       /\ stateStore.before[k].status = "uploading"
       /\ stateStore.before[k].id /= stateStore.states[1].id
  /\ stateStore.states[1].updatedAt + stateStore.stateExpiry
       = stateStore.now

\* C29 (the claim as stated; the code violates it): at the step in which an
\* engine run of ResumableUploader for which the provider opened or kept a
\* session returns without success, the store holds the record with that
\* session (its uploadId), in which every part whose upload task of the run
\* has succeeded is completed and carries its etag.
C29_FailureKeepsProgress ==
  [][\A r \in Runs :
       (/\ run[r].pc # "done" /\ run'[r].pc = "done"
        /\ run'[r].rec # 0 /\ run'[r].st # 0
        /\ ~run'[r].result.success) =>
         /\ StoredRecord'[obj'[run'[r].rec].id] # NoObj
         /\ StoredRecord'[obj'[run'[r].rec].id].ms = run'[r].st
         /\ \A p \in DOMAIN mp'[run'[r].st].parts :
              task'[r][p].st = "ok" =>
                /\ mp'[run'[r].st].parts[p].status = "completed"
                /\ mp'[run'[r].st].parts[p].etag # NoEtag]_vars

\* C30: a run of the engine that was given a resume session never asks the
\* adapter for a new session and works on the session it was given, under
\* its uploadId; it starts no upload task for a part it found completed,
\* and such a part keeps the etag it had.
C30_ResumeSkipsCompleted ==
  /\ adapter.initiates
       <= Cardinality({r \in Runs : run[r].pc # "idle" /\ run[r].resume = 0})
  /\ \A r \in Runs :
       run[r].resume # 0 =>
         /\ run[r].pc # "init"
         /\ run[r].st = run[r].resume
         /\ mp[run[r].st].uploadId = run[r].resume
         /\ \A p \in DOMAIN run[r].found :
              run[r].found[p].completed =>
                /\ task[r][p] = NoTask
                /\ mp[run[r].st].parts[p].etag = run[r].found[p].etag

\* a resumed run has succeeded: it found a part completed and uploaded
\* another one itself
C30_Witness ==
  \E r \in Runs :
    /\ run[r].resume # 0
    /\ run[r].pc = "done" /\ run[r].result.success
    /\ \E p \in DOMAIN run[r].found : run[r].found[p].completed
    /\ \E p \in DOMAIN run[r].found :
         ~run[r].found[p].completed /\ task[r][p].st = "ok"

----------------------------------------------------------------------------
\* C31: every retry of a part calls storage.uploadPart with the key, the
\* uploadId, the partNumber and the byte range of the first attempt of its
\* task, and a task whose attempt succeeded makes no further call in the
\* run: it stays settled, with the call it made last, until the run slot
\* is taken by another call of upload.
C31_RetriesRepeatFirstCall ==
  [][\A r \in Runs, p \in PartIdx :
       /\ (task[r][p].st = "sleep" /\ task'[r][p].st = "call") =>
            /\ task'[r][p].last = task[r][p].first
            /\ task'[r][p].first = task[r][p].first
            /\ task[r][p].first # NoArgs
       /\ task[r][p].st = "ok" =>
            \/ task'[r][p] = task[r][p]
            \/ task'[r] = [q \in PartIdx |-> NoTask]]_vars

\* a part whose first attempt failed was sent again with the arguments of
\* the first call, and the retry succeeded
C31_Witness ==
  \E r \in Runs, p \in PartIdx :
    /\ task[r][p].st = "ok"
    /\ Len(task[r][p].waits) >= 1
    /\ task[r][p].first # NoArgs
    /\ task[r][p].last = task[r][p].first
    /\ task[r][p].first.partNumber = p
    /\ adapter.partCalls[task[r][p].first.uploadId][p] >= 2

\* C32: the k-th wait of a part (before attempt k, counted from 0) is the
\* engine's retryDelay times 2^(k-1), each wait is twice the one before and
\* longer, and there is one wait between two attempts and none after the
\* last: a task in its attempt a has waited a times, and a part given up
\* after retries + 1 attempts has waited retries times.
C32_BackoffDoubles ==
  \A r \in Runs, p \in PartIdx :
    LET t == task[r][p]
        cfg == run[r].cfg
    IN  /\ \A k \in 1 .. Len(t.waits) :
             /\ t.waits[k] = cfg.retryDelay * 2 ^ (k - 1)
             /\ k > 1 => /\ t.waits[k] = 2 * t.waits[k - 1]
                         /\ t.waits[k] > t.waits[k - 1]
        /\ t.st = "call" => Len(t.waits) = t.attempt
        /\ t.st = "sleep" => Len(t.waits) = t.attempt + 1
        /\ (t.st = "rej" /\ t.first # NoArgs /\ run[r].st # 0
            /\ PartsOf(World, r)[p].error = "uploadPartFailed") =>
             /\ Len(t.waits) = cfg.retries
             /\ adapter.partCalls[t.first.uploadId][p] = Len(t.waits) + 1

\* a part was given up after three waits, the delay configured
C32_Witness ==
  \E r \in Runs, p \in PartIdx :
    /\ task[r][p].st = "rej"
    /\ PartsOf(World, r)[p].status = "failed"
    /\ config.retryDelay # 0
    /\ task[r][p].waits = <<config.retryDelay, 2 * config.retryDelay,
                            4 * config.retryDelay>>

\* C33: the auto-save of a run writes the record at most once per
\* autoSaveInterval: a step of the program in which it writes makes one
\* write, and autoSaveInterval has passed since the write before (since
\* the start of the run, for the first).
C33_AutoSaveThrottled ==
  [][\A r \in Runs :
       run'[r].writes >= 1 =>
         /\ run'[r].writes = 1
         /\ run[r].sinceSave >= AutoSaveInterval]_vars

\* the headers of a map as a request carries them: names without case,
\* whatever the order of insertion
HeaderSet(h) == {<<ToLowerCase(h[k][1]), h[k][2]>> : k \in 1 .. Len(h)}

\* C34: two SigV4 signings at the same time of the same request, each with
\* a header map of its own, whose maps hold the same headers in another
\* order or with names in another case, give the same Authorization: the
\* same signed-header list and the same signature over the same canonical
\* headers.
C34_SignIgnoresOrderAndCase ==
  signer.strategy = "s3" =>
    \A i, j \in DOMAIN signer.log :
      LET a == signer.log[i]
          b == signer.log[j]
      IN  (/\ a.fresh /\ b.fresh
           /\ a.target = b.target /\ a.payload = b.payload /\ a.now = b.now
           /\ Len(a.headers) = Len(b.headers)
           /\ HeaderSet(a.headers) = HeaderSet(b.headers)) =>
            a.authorization = b.authorization

\* C35: a resume of the state a failed run left, in which every transfer
\* succeeds, has uploaded every part and returned success = true when it
\* has ended.
C35_ResumeEndsInSuccess ==
  run[2].pc = "done" =>
    /\ run[2].result.success
    /\ \A p \in DOMAIN PartsOf(World, 2) :
         PartsOf(World, 2)[p].status = "completed"

\* C36: once abortMultipartUpload has been issued for a session, no
\* completeMultipartUpload and no uploadPart is called for it.
C36_NoCallAfterAbort ==
  [][\A u \in StateIds :
       (\E k \in DOMAIN adapter.aborts : adapter.aborts[k] = u) =>
         /\ \A p \in PartIdx :
              adapter'.partCalls[u][p] = adapter.partCalls[u][p]
         /\ SelectSeq(adapter'.completes, LAMBDA c : c.uploadId = u)
              = SelectSeq(adapter.completes, LAMBDA c : c.uploadId = u)]_vars

\* C37: a call of resume that finds the record cancelled or completed
\* starts no engine run: it makes no call of the adapter and the record is
\* not set to uploading.
C37_ResumeOnlyResumable ==
  [][\A c \in Runs :
       (/\ call[c].op = "resume"
        /\ call[c].pc = "hash2"
        /\ call'[c].pc # "hash2"
        /\ obj[call[c].ref].status \in {"cancelled", "completed"}) =>
         /\ adapter' = adapter
         /\ call'[c].pc # "run"
         /\ StoreGet(store', call[c].id) # 0 =>
              obj'[StoreGet(store', call[c].id)].status # "uploading"]_vars

\* C38: every etag of a complete request of the client is the etag the
\* server returned for that chunk under the uploadId of the request.
C38_EtagsOfTheSession ==
  \A k \in DOMAIN client.completes :
    \A i \in DOMAIN client.completes[k].etags :
      client.completes[k].etags[i] = Etag(client.completes[k].uploadId, i)

\* an engine run that executeUpload started for the record id is in
\* progress
Running(r, id) ==
  /\ run[r].pc \notin {"idle", "done"}
  /\ run[r].rec # 0
  /\ obj[run[r].rec].id = id

\* C39: activeUploads has an entry for an id exactly while an engine run
\* for that id is in progress: no entry without a run, and no run in
\* progress without an entry.
C39_ActiveWhileRunning ==
  \A id \in RecIds :
    (active[id] # 0) <=> (\E r \in Runs : Running(r, id))

\* C40: the cache of a CachedScanner never holds more than maxSize
\* entries, and an entry is returned as a cache hit only before its
\* expiry time.
C40_CacheBounded ==
  /\ Len(scanner.cache) <= scanner.cfg.maxSize
  /\ scanner.last.hit => scanner.last.expiresAt > scanner.last.now

====
